---- MODULE Spec2Model ----
(***************************************************************************)
(* A model of the ATH alert bots of this repository:                       *)
(*   src/main.py        the subscriber bot (in-memory 24h cooldown map,    *)
(*                      subscriber set, digest dispatch)                   *)
(*   src/ath_monitor.py the single-chat monitor (sent_tokens.json)         *)
(*                                                                         *)
(* Time is a count of seconds.  The model's clock advances in steps of     *)
(* Quantum seconds (a third of the cooldown window), so that elapsed times *)
(* below, exactly at and above the window all occur.                       *)
(***************************************************************************)
EXTENDS Integers, Sequences, FiniteSets, TLC

(* ------------------------------ bounds -------------------------------- *)

\* the clock runs from 0 to MaxTicks * Quantum
MaxTicks == 5

\* the longest candidate list a scan returns in the model
MaxCands == 2

\* entries per catalog page in the model (per_page: 100 in main.py:40,
\* 250 in ath_monitor.py:86)
PerPage == 2

\* pages get_top_marketcap_coins asks for in the model (total_pages: 30 in
\* main.py:30)
TotalPages == 3

\* the largest max_coins get_top_coins_data is called with in the model
\* (5000 in ath_monitor.py:76)
MaxCoinsArg == 6

\* the longest coins_data get_coin_ath_data is given in the model
MaxDetail == 2

\* the main loops are followed for this many hours after the hour in which
\* the process starts
MaxHours == 2

\* the most inbound updates that wait at Telegram at one time in the model
MaxPending == 1

\* the most inbound updates Telegram receives for the bot in the model
MaxUpdates == 4

\* the longest token list a digest is rendered from in the model (the
\* digests show at most 10 or 15 tokens, or break after every 10th)
MaxRender == 16

(* --------------------------- program constants ------------------------ *)

\* main.py: 86400 seconds (lines 187, 209)
CooldownSeconds == 86400

Quantum == CooldownSeconds \div 3

\* Python's None, among values that are otherwise times or counts
None == 0 - 1

CoinIds == {"btc", "eth"}

Chats == {"A", "B", "C"}

\* market_cap_rank of the coins of the model
RankOf(id) == IF id = "btc" THEN 1 ELSE 2

Token(id) == [id |-> id, rank |-> RankOf(id)]

(* ------------------------------ helpers ------------------------------- *)

RECURSIVE SeqsUpTo(_, _)
SeqsUpTo(S, n) ==
    IF n = 0 THEN {<<>>}
    ELSE LET shorter == SeqsUpTo(S, n - 1)
         IN  shorter \cup {Append(s, x) : s \in {t \in shorter : Len(t) = n - 1}, x \in S}

IsRankSorted(s) == \A k \in 1..(Len(s) - 1) : s[k].rank <= s[k + 1].rank

\* get_coin_ath_data returns its tokens sorted by rank (main.py:175); the
\* same coin may be found more than once (the catalog may list it twice)
CandidateLists ==
    {s \in SeqsUpTo({Token(i) : i \in CoinIds}, MaxCands) : IsRankSorted(s)}

Ids(tokens) == {tokens[k].id : k \in 1..Len(tokens)}

\* dict.get(key): the value, or None
DictGet(d, key) == IF key \in DOMAIN d THEN d[key] ELSE None

\* truth value of a Python object: None is falsy, a datetime is always truthy
Truthy(v) == v # None

\* (a - b).total_seconds() for two aware UTC datetimes
TotalSeconds(a, b) == a - b

(* ------------------- main.py: the cooldown tracker --------------------- *)

\* a slip: records are expired after a third of the window
CooldownExpiredEarly(now_, last_alert_time) ==
    TotalSeconds(now_, last_alert_time) > CooldownSeconds \div 3

\* a slip: records are expired after half the window
CooldownExpiredHalfDay(now_, last_alert_time) ==
    TotalSeconds(now_, last_alert_time) > CooldownSeconds \div 2

\* main.py:187  the test that expires a record
CooldownExpired(now_, last_alert_time) ==
    TotalSeconds(now_, last_alert_time) > CooldownSeconds

\* main.py:180-194
clean_old_cooldowns(cooldowns, now_) ==
    LET expired_tokens == {id \in DOMAIN cooldowns : CooldownExpired(now_, cooldowns[id])}
    IN  [id \in (DOMAIN cooldowns) \ expired_tokens |-> cooldowns[id]]

\* a slip: > where the code has >=
CooldownOverStrict(now_, last_alert_time) ==
    TotalSeconds(now_, last_alert_time) > CooldownSeconds

\* main.py:209  the test that lets a token alert again
CooldownOver(now_, last_alert_time) ==
    TotalSeconds(now_, last_alert_time) >= CooldownSeconds

\* main.py:204-217  one iteration of the loop: is this token new/eligible?
IsNewToken(cooldowns, now_, token) ==
    LET last_alert_time == DictGet(cooldowns, token.id)
    IN  IF Truthy(last_alert_time)
        THEN CooldownOver(now_, last_alert_time)
        ELSE TRUE

\* main.py:196-220  the loop appends the eligible tokens in input order
RECURSIVE filter_new_ath_tokens(_, _, _)
filter_new_ath_tokens(cooldowns, now_, all_ath_tokens) ==
    IF all_ath_tokens = <<>> THEN <<>>
    ELSE LET token == Head(all_ath_tokens)
             rest  == filter_new_ath_tokens(cooldowns, now_, Tail(all_ath_tokens))
         IN  IF IsNewToken(cooldowns, now_, token) THEN <<token>> \o rest ELSE rest

\* a slip: no record is written
SetCooldownsNothing(cooldowns, tokens, now_) == cooldowns

\* main.py:508-510 (and 464-466)  ath_cooldowns[token['id']] = now
SetCooldowns(cooldowns, tokens, now_) ==
    [id \in (DOMAIN cooldowns) \cup Ids(tokens) |->
        IF id \in Ids(tokens) THEN now_ ELSE cooldowns[id]]

(* ----------------------- main.py: the digests -------------------------- *)

\* main.py:222-293  "" without tokens, the alert digest otherwise
create_ath_message(new_tokens) == IF new_tokens = <<>> THEN "" ELSE "alert"

\* a slip: one text for both cases
create_no_changes_message_one(total_ath_count) == "no_new_changes"

\* main.py:295-312  the digest of a check without new tokens
create_no_changes_message(total_ath_count) ==
    IF total_ath_count = 0 THEN "no_ath_found" ELSE "no_new_changes"

(* ---------------------- main.py: the dispatcher ------------------------ *)

\* what bot.send_message does for one recipient: it returns ("ok"), or
\* raises an exception whose text is one of these (as a sequence of words)
ErrBlocked == <<"Forbidden:", "bot", "was", "blocked", "by", "the", "user">>

ErrChatNotFound == <<"Chat", "not", "found">>

ErrTimedOut == <<"Timed", "out">>

SendErrors == {ErrBlocked, ErrChatNotFound, ErrTimedOut}

\* the errors of SendErrors whose text has "blocked" or "chat not found" in it
GoneErrors == {ErrBlocked, ErrChatNotFound}

SendOutcomes == {<<"ok">>} \cup SendErrors

\* str.lower(), word by word
LowerWord(w) ==
    CASE w = "Forbidden:" -> "forbidden:"
      [] w = "Chat"       -> "chat"
      [] w = "Timed"      -> "timed"
      [] w = "Rate"       -> "rate"
      [] w = "Too"        -> "too"
      [] w = "Many"       -> "many"
      [] w = "Requests"   -> "requests"
      [] w = "Internal"   -> "internal"
      [] w = "Server"     -> "server"
      [] w = "Error"      -> "error"
      [] OTHER            -> w

Lower(text) == [k \in 1..Len(text) |-> LowerWord(text[k])]

\* phrase in text
Contains(phrase, text) ==
    \E k \in 1..(Len(text) - Len(phrase) + 1) :
        SubSeq(text, k, k + Len(phrase) - 1) = phrase

\* a slip: the error text is not lowercased before the search
IsPermanentFailureCased(e) ==
    \/ Contains(<<"blocked">>, e)
    \/ Contains(<<"chat", "not", "found">>, e)

\* a slip: every failed send prunes the recipient
IsPermanentFailureAny(e) == e # <<"ok">>

\* main.py:452  the test that prunes a recipient
IsPermanentFailure(e) ==
    \/ Contains(<<"blocked">>, Lower(e))
    \/ Contains(<<"chat", "not", "found">>, Lower(e))

\* a slip: a failed send is not counted
CountSendUncounted(sent_, failed_, outcome) ==
    IF outcome = <<"ok">>
    THEN [sent |-> sent_ + 1, failed |-> failed_]
    ELSE [sent |-> sent_, failed |-> failed_]

\* main.py:445-449  the two counters after one send: sent += 1 when
\* bot.send_message returned, failed += 1 when it raised
CountSend(sent_, failed_, outcome) ==
    IF outcome = <<"ok">>
    THEN [sent |-> sent_ + 1, failed |-> failed_]
    ELSE [sent |-> sent_, failed |-> failed_ + 1]

(* -------------------- main.py: inbound commands ----------------------- *)

\* the texts of the inbound messages of the model
Texts == {"/start", " /start ", "/stop", "/status", "hello", "/START"}

\* str.strip() (main.py:555)
Strip(text) == IF text = " /start " THEN "/start" ELSE text

\* a slip: the chat is subscribed after the welcome message was sent, so
\* it is not when the send raises
handle_text_after_send(subs, chat_id, text, outcome) ==
    CASE Strip(text) = "/start" -> IF outcome = <<"ok">> THEN subs \cup {chat_id} ELSE subs
      [] Strip(text) = "/stop"  -> subs \ {chat_id}
      [] OTHER                  -> subs

\* main.py:558-559, 600-601, 608  what handle_message does to the subscriber
\* set for a message with this text; outcome is what the bot.send_message
\* that follows does
handle_text(subs, chat_id, text, outcome) ==
    CASE Strip(text) = "/start" -> subs \cup {chat_id}
      [] Strip(text) = "/stop"  -> subs \ {chat_id}
      [] OTHER                  -> subs

(* --------------------- main.py: the polling offset -------------------- *)

\* the update_id Telegram gives the first update of the model
FirstUpdateId == 7

\* What getUpdates answers for this offset: the pending updates whose
\* update_id is at least the offset, oldest first (main.py:688, 698)
UpdatesFrom(pending, offset_) == SelectSeq(pending, LAMBDA u : u >= offset_)

\* a slip: the offset is the id of the update handled last
NextOffsetSame(update_id) == update_id

\* main.py:748  offset = update['update_id'] + 1
NextOffset(update_id) == update_id + 1

(* ----------------------- the catalog provider ------------------------- *)

\* The provider's catalog is the coins ranked 1, 2, 3, ...; the coin of
\* rank r has id r.  Page p of size n holds ranks (p-1)*n+1 .. p*n.
PageEntries(p, n) == [k \in 1..n |-> [id |-> (p - 1) * n + k, rank |-> (p - 1) * n + k]]

\* what a successful page request may carry: the page; the page with its
\* first entry a repeat of the top coin (the ranking moved between two
\* requests); the page with a null rank in its first entry; no entry
PageBodies(p, n) ==
    LET page == PageEntries(p, n)
    IN  {page,
         [page EXCEPT ![1] = [id |-> 1, rank |-> 1]],
         [page EXCEPT ![1] = [id |-> page[1].id, rank |-> None]],
         <<>>}

\* exception texts of a failed request, as sequences of words
Err429 == <<"429", "Too", "Many", "Requests">>

ErrRateLimit == <<"Rate", "limit", "exceeded">>

ErrServer == <<"Internal", "Server", "Error">>

FetchErrors == {Err429, ErrRateLimit, ErrServer}

\* main.py:65 and main.py:165  is this exception a rate-limit signal?
IsRateLimit(e) ==
    \/ Contains(<<"429">>, e)
    \/ Contains(<<"rate">>, Lower(e))

\* What call_tool does for one page (main.py:35-45): it raises exc (<<>>
\* when it does not raise), or returns result, which is a list or is not
MainResponses(p) ==
    {[exc |-> <<>>, is_list |-> TRUE, result |-> b] : b \in PageBodies(p, PerPage)}
    \cup {[exc |-> <<>>, is_list |-> FALSE, result |-> <<>>]}
    \cup {[exc |-> e, is_list |-> FALSE, result |-> <<>>] : e \in FetchErrors}

\* main.py:33-69  one iteration of the loop over the pages:
\* "ok" (go on), "rate" (sleep 120 s, continue) or "error" (break)
MainOutcome(resp) ==
    IF resp.exc = <<>> THEN "ok"
    ELSE IF IsRateLimit(resp.exc) THEN "rate" ELSE "error"

\* main.py:47-48  the entries the iteration adds to all_coin_data
MainAdds(resp) ==
    IF resp.exc = <<>> /\ resp.result # <<>> /\ resp.is_list THEN resp.result ELSE <<>>

\* What requests.get does for one page (ath_monitor.py:103): it raises,
\* or returns a response with a status code and a JSON body
MonitorResponses(p) ==
    {[raises |-> FALSE, status_code |-> 200, json |-> b] : b \in PageBodies(p, PerPage)}
    \cup {[raises |-> FALSE, status_code |-> c, json |-> <<>>] : c \in {429, 500}}
    \cup {[raises |-> TRUE, status_code |-> 0, json |-> <<>>]}

\* ath_monitor.py:101-124  one iteration: "ok", "rate" (sleep 10 s,
\* continue) or "error" (break)
MonitorOutcome(resp) ==
    IF resp.raises THEN "error"
    ELSE IF resp.status_code = 200 THEN "ok"
    ELSE IF resp.status_code = 429 THEN "rate"
    ELSE "error"

\* ath_monitor.py:105-108
MonitorAdds(resp) ==
    IF ~resp.raises /\ resp.status_code = 200 THEN resp.json ELSE <<>>

\* ath_monitor.py:87  max_pages = max_coins // per_page
MaxPages(max_coins, per_page) == max_coins \div per_page

\* a slip: a rate-limited page is requested again
NextPageRetry(page, outcome) == IF outcome = "rate" THEN page ELSE page + 1

\* The for loop over range(1, max_pages + 1): after the iteration for page,
\* "rate" and "ok" both go to the next value of the range (continue and the
\* end of the body do the same in a for loop); "error" leaves the loop.
NextPage(page, outcome) == page + 1

(* --------------------- main.py: the detail fetcher --------------------- *)

\* a detail result with market data in which every field is set: the ATH
\* was reached at t, the rank is 1
GoodDetail(t) ==
    [exc |-> <<>>, has_market_data |-> TRUE, ath_date |-> t, current_price |-> 5,
     ath_price |-> 5, market_cap_rank |-> 1]

\* What call_tool does for one coin (main.py:100-111): it raises exc, or
\* returns a result without market_data, or one with market_data in which
\* one field is missing or null (None), zero, or has another value: an ATH
\* 24 hours ago exactly, an ATH before that, the rank 2.
DetailResponses(t) ==
    {[GoodDetail(t) EXCEPT !.exc = e, !.has_market_data = FALSE] : e \in FetchErrors}
    \cup {[GoodDetail(t) EXCEPT !.has_market_data = FALSE]}
    \cup {[GoodDetail(t) EXCEPT !.ath_date = d] :
              d \in {None, t, t - CooldownSeconds, t - CooldownSeconds - Quantum}}
    \cup {[GoodDetail(t) EXCEPT !.current_price = c] : c \in {None, 0}}
    \cup {[GoodDetail(t) EXCEPT !.ath_price = a] : a \in {None, 0}}
    \cup {[GoodDetail(t) EXCEPT !.market_cap_rank = r] : r \in {None, 0, 2}}

\* "ok", "rate" (sleep 180 s, continue) or "error" (continue)
DetailOutcome(resp) ==
    IF resp.exc = <<>> THEN "ok"
    ELSE IF IsRateLimit(resp.exc) THEN "rate" ELSE "error"

\* truth value of a number or None: None and 0 are falsy
Falsy(v) == v = None \/ v = 0

\* a slip: the rank is not tested
GivesTokenNoRank(resp, t) ==
    /\ resp.exc = <<>>
    /\ resp.has_market_data
    /\ resp.ath_date # None /\ ~Falsy(resp.current_price) /\ ~Falsy(resp.ath_price)
    /\ (t - resp.ath_date) <= 24 * 3600

\* main.py:113-131  does the result give a token?  A missing ath_date is
\* falsy (the date is a string), and so is a price or a rank of None or 0.
GivesToken(resp, t) ==
    /\ resp.exc = <<>>
    /\ resp.has_market_data
    /\ resp.ath_date # None /\ ~Falsy(resp.current_price) /\ ~Falsy(resp.ath_price)
    /\ ~Falsy(resp.market_cap_rank)
    /\ (t - resp.ath_date) <= 24 * 3600

\* main.py:135-147  token_data
TokenData(coin_id, resp) ==
    [id |-> coin_id, rank |-> resp.market_cap_rank, ath_date |-> resp.ath_date,
     current_price |-> resp.current_price, ath_price |-> resp.ath_price]

\* a slip: a token goes before the tokens of its own rank (the sort is not
\* stable)
RECURSIVE InsertBeforeEqual(_, _)
InsertBeforeEqual(sorted, token) ==
    IF sorted = <<>> THEN <<token>>
    ELSE IF Head(sorted).rank < token.rank
         THEN <<Head(sorted)>> \o InsertBeforeEqual(Tail(sorted), token)
         ELSE <<token>> \o sorted

\* list.sort(key=rank): a stable sort, here by insertion
RECURSIVE InsertByRank(_, _)
InsertByRank(sorted, token) ==
    IF sorted = <<>> THEN <<token>>
    ELSE IF Head(sorted).rank <= token.rank
         THEN <<Head(sorted)>> \o InsertByRank(Tail(sorted), token)
         ELSE <<token>> \o sorted

RECURSIVE SortByRank(_)
SortByRank(tokens) ==
    IF tokens = <<>> THEN <<>>
    ELSE InsertByRank(SortByRank(SubSeq(tokens, 1, Len(tokens) - 1)), tokens[Len(tokens)])

\* a slip: a failure that is no rate limit ends the loop
NextCoinAbort(idx, outcome) == IF outcome = "error" THEN idx + MaxDetail ELSE idx + 1

\* the coin the for loop of get_coin_ath_data takes after position idx
\* (main.py:88, 169): the next one, whatever happened to this one
NextCoin(idx, outcome) == idx + 1

(* ------------------------ the digests: their text --------------------- *)

\* A price is a count of millionths of a dollar.
Micro == 1000000

\* one cent
Cent == Micro \div 100

\* the prices of the tokens of the model: $0.000123, $0.009999, $0.01, $1234.5
RenderPrices == <<123, 9999, Cent, 1234500000>>

\* f"{x:.Nf}": the price rounded to N decimals, as digits decimals and the
\* count of units of 10^-N it shows
FixedPoint(price, digits) ==
    LET unit == 10 ^ (6 - digits)
    IN  [decimals |-> digits, units |-> (price + unit \div 2) \div unit]

\* no price is shown
NoPrice == [decimals |-> None, units |-> None]

\* a slip: two decimals for every price
FormatPriceTwo(price) == FixedPoint(price, 2)

\* main.py:252-255, 260-263, 407-410  price_str
FormatPrice(price) ==
    IF price < Cent THEN FixedPoint(price, 6) ELSE FixedPoint(price, 2)

\* main.py:251, 259, 406  a price is shown when it is above zero
PriceField(price) == IF price > 0 THEN FormatPrice(price) ELSE NoPrice

\* ath_monitor.py:204-205  f"{x:,.6f}"
MonitorPriceField(price) == FixedPoint(price, 6)

\* main.py:286  a break line after every 10th token
BreakEvery == 10

\* main.py:402, 421  the startup report shows the first 15 tokens
StartupShown == 15

\* ath_monitor.py:202, 213  the digest shows the first 10 tokens
MonitorShown == 10

\* a slip: the footer of the alert also counts the cooldown records
AlertFooterWithCooldowns(subs, cooldowns) == Cardinality(subs) + Cardinality(DOMAIN cooldowns)

\* main.py:290  len(subscribers), read from the module global
AlertFooter(subs, cooldowns) == Cardinality(subs)

\* main.py:222-293  the text create_ath_message returns for a list that is
\* not empty: the time, the count header, the total, one line-group per
\* token of the list sorted by rank (main.py:230), the break lines, the
\* footer with the number of subscribers.  There is no "more" trailer.
AthMessage(new_tokens, total_ath_count, gmt8_time, subs, cooldowns) ==
    LET sorted == SortByRank(new_tokens)
    IN  [kind   |-> "alert",
         time   |-> gmt8_time,
         count  |-> Len(sorted),
         total  |-> total_ath_count,
         groups |-> [i \in 1..Len(sorted) |->
                        [id      |-> sorted[i].id,
                         rank    |-> sorted[i].rank,
                         current |-> PriceField(sorted[i].current_price),
                         ath     |-> PriceField(sorted[i].ath_price)]],
         breaks |-> {i \in 1..Len(sorted) : i % BreakEvery = 0 /\ i < Len(sorted)},
         more   |-> None,
         footer |-> AlertFooter(subs, cooldowns)]

\* main.py:385-434  create_startup_report: the tokens as they are given
\* (get_coin_ath_data has sorted them), the first 15 of them shown with the
\* current price only, then "... and N more ATH tokens"
create_startup_report(ath_tokens_, gmt8_time, subs) ==
    LET shown == SubSeq(ath_tokens_, 1, IF Len(ath_tokens_) > StartupShown
                                        THEN StartupShown ELSE Len(ath_tokens_))
    IN  [kind   |-> "startup",
         time   |-> gmt8_time,
         count  |-> Len(ath_tokens_),
         total  |-> Len(ath_tokens_),
         groups |-> [i \in 1..Len(shown) |->
                        [id      |-> shown[i].id,
                         rank    |-> shown[i].rank,
                         current |-> PriceField(shown[i].current_price),
                         ath     |-> NoPrice]],
         breaks |-> {},
         more   |-> IF Len(ath_tokens_) > StartupShown
                    THEN Len(ath_tokens_) - StartupShown ELSE None,
         footer |-> Cardinality(subs)]

\* list.sort(key=market_cap, reverse=True): stable, largest first
RECURSIVE InsertByMarketCap(_, _)
InsertByMarketCap(sorted, token) ==
    IF sorted = <<>> THEN <<token>>
    ELSE IF Head(sorted).market_cap >= token.market_cap
         THEN <<Head(sorted)>> \o InsertByMarketCap(Tail(sorted), token)
         ELSE <<token>> \o sorted

RECURSIVE SortByMarketCap(_)
SortByMarketCap(tokens) ==
    IF tokens = <<>> THEN <<>>
    ELSE InsertByMarketCap(SortByMarketCap(SubSeq(tokens, 1, Len(tokens) - 1)),
                           tokens[Len(tokens)])

\* ath_monitor.py:196-214  the digest of check_ath_tokens: the tokens sorted
\* by market cap, largest first, the first 10 of them shown with both
\* prices to six decimals, then "... and N more tokens hit ATH!".  The text
\* has no timestamp of its own and no footer.
MonitorDigest(ath_tokens_) ==
    LET sorted == SortByMarketCap(ath_tokens_)
        shown  == SubSeq(sorted, 1, IF Len(sorted) > MonitorShown
                                    THEN MonitorShown ELSE Len(sorted))
    IN  [kind   |-> "monitor",
         time   |-> None,
         count  |-> Len(sorted),
         total  |-> Len(sorted),
         groups |-> [i \in 1..Len(shown) |->
                        [id      |-> shown[i].id,
                         rank    |-> shown[i].rank,
                         current |-> MonitorPriceField(shown[i].current_price),
                         ath     |-> MonitorPriceField(shown[i].ath_price)]],
         breaks |-> {},
         more   |-> IF Len(sorted) > MonitorShown
                    THEN Len(sorted) - MonitorShown ELSE None,
         footer |-> None]

\* The token lists the digests of the model are rendered from: n tokens
\* with the ids 1..n, found in ascending or in descending order of id
\* (reversed); the rank of a token is its id, or two tokens share each rank
\* (tied: the ranking moved between two detail requests); the market cap
\* falls as the rank grows; the prices run through RenderPrices, and the
\* ATH price is 50 millionths above the current price.
RenderList(n, reversed, tied) ==
    [k \in 1..n |->
        LET id    == IF reversed THEN n + 1 - k ELSE k
            rank  == IF tied THEN (id + 1) \div 2 ELSE id
            price == RenderPrices[(id % Len(RenderPrices)) + 1]
        IN  [id |-> id, rank |-> rank, current_price |-> price,
             ath_price |-> price + 50, market_cap |-> (MaxRender + 2 - rank) * Micro]]

\* the lengths of these lists: two tokens, as many as a digest
\* shows, one more than that, and the longest list of the model
RenderLengths == {2, MonitorShown, MonitorShown + 1, StartupShown, MaxRender}

RenderLists ==
    {RenderList(n, reversed, tied) :
        n \in RenderLengths, reversed \in BOOLEAN, tied \in {FALSE}}
    \cup {RenderList(n, TRUE, TRUE) : n \in RenderLengths}

(* ------------- ath_monitor.py: timestamps and sent_tokens -------------- *)

\* A datetime is its count of seconds and whether it carries a timezone.
\* datetime.now(pytz.UTC): aware (ath_monitor.py:151)
NowUtc(t) == [secs |-> t, aware |-> TRUE]

\* datetime.now(): naive (ath_monitor.py:38)
NowNaive(t) == [secs |-> t, aware |-> FALSE]

\* datetime.isoformat(): the text ends in the offset "+00:00" when the
\* datetime is aware, and has no offset when it is naive
IsoFormat(dt) == [secs |-> dt.secs, offset |-> IF dt.aware THEN "+00:00" ELSE ""]

\* datetime.fromisoformat(): aware exactly when the text has an offset
FromIsoFormat(str) == [secs |-> str.secs, aware |-> str.offset # ""]

\* a - b raises TypeError when one datetime is naive and the other aware
SubtractRaises(a, b) == a.aware # b.aware

\* a - b, in seconds, when it does not raise
Subtract(a, b) == a.secs - b.secs

\* timedelta(hours=24)  (ath_monitor.py:44, 170)
OneDay == 24 * 3600

\* timedelta(hours=6)  (ath_monitor.py:225)
SixHours == 6 * 3600

\* ath_monitor.py:41-47  one iteration: is the entry kept?  The bare
\* except drops the entry whenever anything in the try block raises.
KeepsEntry(current_time, timestamp_str) ==
    LET token_time == FromIsoFormat(timestamp_str)
    IN  IF SubtractRaises(current_time, token_time)
        THEN FALSE
        ELSE Subtract(current_time, token_time) < OneDay

\* ath_monitor.py:36-49
clean_old_entries(sent_tokens, t) ==
    LET current_time == NowNaive(t)
        kept == {token_id \in DOMAIN sent_tokens :
                    KeepsEntry(current_time, sent_tokens[token_id])}
    IN  [token_id \in kept |-> sent_tokens[token_id]]

\* A catalog entry as check_ath_tokens reads it (ath_monitor.py:155-159):
\* complete is whether id, name, current_price, ath and ath_date are all
\* truthy; ath_date is the time of the all-time high.
CoinEntry(id, ath_date, complete) == [id |-> id, ath_date |-> ath_date, complete |-> complete]

\* ath_monitor.py:161-172  does this coin become a new ATH token?
IsNewAth(coin, sent_tokens, current_time) ==
    /\ coin.complete
    /\ Subtract(current_time, NowUtc(coin.ath_date)) <= OneDay
    /\ coin.id \notin DOMAIN sent_tokens

\* ath_monitor.py:153-190  the loop: <<ath_tokens (ids), sent_tokens>>
RECURSIVE ScanForAth(_, _, _, _)
ScanForAth(coins_data, ath_tokens, sent_tokens, current_time) ==
    IF coins_data = <<>> THEN <<ath_tokens, sent_tokens>>
    ELSE LET coin == Head(coins_data)
         IN  IF IsNewAth(coin, sent_tokens, current_time)
             THEN ScanForAth(Tail(coins_data),
                             Append(ath_tokens, coin.id),
                             [k \in (DOMAIN sent_tokens) \cup {coin.id} |->
                                 IF k = coin.id THEN IsoFormat(current_time)
                                 ELSE sent_tokens[k]],
                             current_time)
             ELSE ScanForAth(Tail(coins_data), ath_tokens, sent_tokens, current_time)

\* ath_monitor.py:222-226  is the "no new ATH tokens" message held back?
NoResultThrottled(sent_tokens, current_time) ==
    LET last_no_result == IF "_last_no_result" \in DOMAIN sent_tokens
                          THEN sent_tokens["_last_no_result"] ELSE [secs |-> None, offset |-> ""]
    IN  /\ last_no_result.secs # None
        /\ Subtract(current_time, FromIsoFormat(last_no_result)) < SixHours

(* ---------------------- the main loops: timing ------------------------ *)

\* main.py:763  asyncio.sleep(10) at the end of an iteration
PollInterval == 10

\* main.py:770  asyncio.sleep(30) after an exception in the loop
ErrorBackoff == 30

\* main.py:755  the check starts when minute == 0 and second < 30
WindowSeconds == 30

\* main.py:756  and more than 3500 seconds after the last check started
MinGap == 3500

\* ath_monitor.py:293  main_interval
MainInterval == 3600

\* ath_monitor.py:343  time.sleep(300) after an exception in the loop
RetryWait == 300

\* seconds in an hour; the GMT+8 hour boundaries are the multiples of it
HourSeconds == 60 * 60

\* the second of the hour at which the process is started in the model
StartTimes == {3000, 3590}

\* how long a scan (catalog fetch, detail fetch of every coin, dispatch)
\* takes in the model: a minute when the catalog comes back empty, more than
\* two hours for 3000 coins at 2.5 s or more each (main.py:153-158), ten
\* seconds when the catalog request fails at once (main.py:70-72)
CheckDurations == {10, 60, 7800}

\* asyncio.get_event_loop().time() (main.py:752): a monotonic clock; the
\* model gives it the epoch of the wall clock
Monotonic(t) == t

\* main.py:751, 755  now_gmt8.minute == 0 and now_gmt8.second < 30
InWindow(t) == (t % HourSeconds) < WindowSeconds

\* a slip: the time since the last check is not looked at
IsCheckTimeNoGap(t, last_check) == InWindow(t)

\* main.py:755-756  is it time for the hourly check?
IsCheckTime(t, last_check) ==
    /\ InWindow(t)
    /\ Monotonic(t) - last_check > MinGap

\* a slip: a missing chat id does not stop ath_monitor.py
CredentialsOkTokenOnly(variant, token, chat_id) == token

\* main.py:710-714: BOT_TOKEN; ath_monitor.py:236-242: TELEGRAM_BOT_TOKEN
\* and TELEGRAM_CHAT_ID.  token and chat_id: is the variable set?
CredentialsOk(variant, token, chat_id) ==
    IF variant = "main" THEN token ELSE token /\ chat_id

\* a slip: an exception in a cycle always ends the process
AfterCycleErrorStops(variant, first) == "exited"

\* Where main() is after an exception in a check cycle.  main.py: the
\* exception is caught in check_ath_tokens (538-539) or in
\* send_startup_report_to_admin (489-490) and the caller goes on.
\* ath_monitor.py: the first run returns from main() (310-315), a scheduled
\* run waits RetryWait and goes on (336-343).
AfterCycleError(variant, first) ==
    IF variant = "main" THEN (IF first THEN "poll" ELSE "sleep")
    ELSE IF first THEN "exited" ELSE "backoff"

(* --------------------------- main.py: state --------------------------- *)

VARIABLES
    now,                    \* the clock
    pc,                     \* where main() is
    subscribers,            \* main.py:9
    ath_cooldowns,          \* main.py:11
    all_current_ath_tokens, \* check_ath_tokens: the scan's result
    new_ath_tokens,         \* check_ath_tokens: the filter's result
    filter_now,             \* filter_new_ath_tokens: its now (main.py:198)
    message,                \* check_ath_tokens: which digest was rendered
    todo,                   \* send_notifications: list(subscribers) still to visit
    snapshot,               \* subscribers when the dispatch began
    attempted,              \* recipients bot.send_message was called for
    rejected,               \* recipients whose send raised one of GoneErrors
    sent,                   \* send_notifications: sent
    failed,                 \* send_notifications: failed
    digests,                \* digests this check has handed to the send loop
    committed,              \* ids whose cooldown record this cycle wrote
    lastEligible,           \* per coin: when a check last put it in the eligible list
    prevEligible,           \* per coin: the time before that
    baseline,               \* the ids the baseline scan of the startup found
    last_start              \* per chat: is /start the most recent of its /start,
                            \* /stop and permanent delivery failures?

botVars == <<now, pc, subscribers, ath_cooldowns, all_current_ath_tokens,
             new_ath_tokens, filter_now, message, todo, snapshot, attempted, rejected,
             sent, failed, digests, committed, lastEligible, prevEligible, baseline,
             last_start>>

cycleVars == <<all_current_ath_tokens, new_ath_tokens, filter_now, message, committed>>

dispatchVars == <<todo, snapshot, attempted, rejected, sent, failed, digests>>

historyVars == <<lastEligible, prevEligible, baseline>>

(* ------------------------ ath_monitor.py: state ------------------------ *)

VARIABLES
    m_now,          \* the clock
    m_pc,           \* where check_ath_tokens is
    sent_file,      \* the content of sent_tokens.json ({} when there is no file)
    sent_tokens,    \* check_ath_tokens: the map loaded and cleaned
    m_lastAlert,    \* per coin: when a delivered notification last included it
    m_prevAlert,    \* per coin: the time before that
    m_lastNoResult, \* when the "no new ATH tokens" message was last sent
    m_noResultGap   \* the time between the last two of these messages

monVars == <<m_now, m_pc, sent_file, sent_tokens, m_lastAlert, m_prevAlert,
             m_lastNoResult, m_noResultGap>>

(* ------------------------- the fetchers: state ------------------------- *)

VARIABLES
    f_variant,      \* "main": get_top_marketcap_coins, "monitor": get_top_coins_data
    f_max_coins,    \* get_top_coins_data: max_coins
    f_max_pages,    \* total_pages (main.py:30) or max_pages (ath_monitor.py:87)
    f_page,         \* the loop variable page
    f_pc,           \* "off", "loop" or "returned"
    all_coin_data,  \* all_coin_data (main.py:27), all_coins (ath_monitor.py:85)
    f_log,          \* the page requests issued so far, with their outcomes
    d_coins,        \* get_coin_ath_data: the ids of coins_data ("": no id)
    d_idx,          \* the position of the loop in coins_data
    d_pc,           \* "off", "loop" or "returned"
    d_ath_tokens,   \* get_coin_ath_data: ath_tokens (main.py:80)
    d_log           \* the detail requests issued so far, with their outcomes

(* ------------------------ the main loops: state ----------------------- *)

VARIABLES
    l_variant,          \* "main": main() of main.py, "monitor": of ath_monitor.py
    l_token,            \* is BOT_TOKEN / TELEGRAM_BOT_TOKEN set?
    l_chat_id,          \* is TELEGRAM_CHAT_ID set?
    l_pc,               \* where main() is ("off": not started in this model)
    l_time,             \* the wall clock, in seconds
    l_current_time,     \* main.py:752  current_time
    last_hourly_check,  \* main.py:740
    l_pending,          \* inbound updates waiting at Telegram
    l_scan_update,      \* an update that arrived during a check is waiting
    l_cycles,           \* scans / check cycles started so far
    l_raised,           \* did the last cycle raise an exception?
    l_fetched,          \* has a catalog fetch been started?
    l_notified,         \* has a Telegram message been sent (or tried)?
    l_looped,           \* has an iteration of the scheduling loop begun?
    l_last_start        \* main.py: the wall clock when the last scheduled check
                        \* began

loopVars == <<l_variant, l_token, l_chat_id, l_pc, l_time, l_current_time,
              last_hourly_check, l_pending, l_scan_update, l_cycles, l_raised,
              l_fetched, l_notified, l_looped,
             l_last_start>>

(* ------------- clean_old_cooldowns and filter_new_ath_tokens ----------- *)

VARIABLES
    g_now,          \* datetime.now(timezone.utc) (main.py:183, 198)
    g_cooldowns,    \* ath_cooldowns
    g_tokens,       \* all_ath_tokens
    g_plain,        \* filter_new_ath_tokens(g_tokens) on g_cooldowns
    g_cleaned,      \* the same after clean_old_cooldowns()
    g_pc            \* "off", "call" or "done"

gcVars == <<g_now, g_cooldowns, g_tokens, g_plain, g_cleaned, g_pc>>

(* ---------------------- the polling offset: state --------------------- *)

VARIABLES
    u_pc,           \* "off"; "poll": at get_updates (main.py:745); "handle":
                    \* in the loop over updates (main.py:746-748)
    offset,         \* main.py:739
    updates,        \* main.py:745  the updates of this iteration not handled yet
    tg_pending,     \* the update_ids Telegram holds for the bot, oldest first
    tg_next_id,     \* the update_id Telegram gives the next update
    handled,        \* per update_id: how often it was passed to handle_message
    poll_failed     \* has a poll failed while an update was pending?

pollVars == <<u_pc, offset, updates, tg_pending, tg_next_id, handled, poll_failed>>

(* ------------------------- the digests: state ------------------------- *)

VARIABLES
    r_pc,           \* "off"; "call": nothing rendered yet; "once"; "twice"
    r_variant,      \* "alert": create_ath_message, "startup":
                    \* create_startup_report, "monitor": ath_monitor.py
    r_tokens,       \* the token list, in the order the tokens were found
    r_text,         \* the text of the first call
    r_text2,        \* the text of the second call, with the same arguments
    r_subs,         \* subscribers at the first call
    r_cooldowns     \* ath_cooldowns at the first call

renderVars == <<r_pc, r_variant, r_tokens, r_text, r_text2, r_subs, r_cooldowns>>

fetchVars == <<f_variant, f_max_coins, f_max_pages, f_page, f_pc, all_coin_data, f_log>>

detailVars == <<d_coins, d_idx, d_pc, d_ath_tokens, d_log>>

otherThanBot == <<monVars, fetchVars, detailVars, loopVars, gcVars, renderVars, pollVars>>

otherThanMon == <<botVars, fetchVars, detailVars, loopVars, gcVars, renderVars, pollVars>>

otherThanFetch == <<botVars, monVars, detailVars, loopVars, gcVars, renderVars, pollVars>>

otherThanDetail == <<botVars, monVars, fetchVars, loopVars, gcVars, renderVars, pollVars>>

otherThanLoop == <<botVars, monVars, fetchVars, detailVars, gcVars, renderVars, pollVars>>

otherThanGc == <<botVars, monVars, fetchVars, detailVars, loopVars, renderVars, pollVars>>

otherThanRender == <<monVars, fetchVars, detailVars, loopVars, gcVars, pollVars>>

otherThanPoll == <<botVars, monVars, fetchVars, detailVars, loopVars, gcVars, renderVars>>

allVars == <<botVars, monVars, fetchVars, detailVars, loopVars, gcVars, renderVars, pollVars>>

\* the polling of main() is not followed
PollOff ==
    /\ u_pc = "off"
    /\ offset = 0
    /\ updates = <<>>
    /\ tg_pending = <<>>
    /\ tg_next_id = FirstUpdateId
    /\ handled = [u \in FirstUpdateId..(FirstUpdateId + MaxUpdates - 1) |-> 0]
    /\ poll_failed = FALSE

\* no digest is rendered on its own
RenderOff ==
    /\ r_pc = "off"
    /\ r_variant = "alert"
    /\ r_tokens = <<>>
    /\ r_text = <<>>
    /\ r_text2 = <<>>
    /\ r_subs = {}
    /\ r_cooldowns = << >>

\* the two functions are not called on their own
GcOff ==
    /\ g_now = 0
    /\ g_cooldowns = << >>
    /\ g_tokens = <<>>
    /\ g_plain = <<>>
    /\ g_cleaned = <<>>
    /\ g_pc = "off"

\* no main() is followed
LoopOff ==
    /\ l_variant = "main"
    /\ l_token = TRUE
    /\ l_chat_id = TRUE
    /\ l_pc = "off"
    /\ l_time = 0
    /\ l_current_time = 0
    /\ last_hourly_check = 0
    /\ l_pending = 0
    /\ l_scan_update = FALSE
    /\ l_cycles = 0
    /\ l_raised = FALSE
    /\ l_fetched = FALSE
    /\ l_notified = FALSE
    /\ l_looped = FALSE
    /\ l_last_start = None

\* no catalog fetch is running
FetchOff ==
    /\ f_variant = "main"
    /\ f_max_coins = 0
    /\ f_max_pages = 0
    /\ f_page = 1
    /\ f_pc = "off"
    /\ all_coin_data = <<>>
    /\ f_log = <<>>

\* no detail fetch is running
DetailOff ==
    /\ d_coins = <<>>
    /\ d_idx = 1
    /\ d_pc = "off"
    /\ d_ath_tokens = <<>>
    /\ d_log = <<>>

\* ath_monitor.py before main() runs; sent_tokens.json does not exist yet
MonInit ==
    /\ m_now = 0
    /\ m_pc = "idle"
    /\ sent_file = << >>
    /\ sent_tokens = << >>
    /\ m_lastAlert = [i \in CoinIds |-> None]
    /\ m_prevAlert = [i \in CoinIds |-> None]
    /\ m_lastNoResult = None
    /\ m_noResultGap = None

\* the module globals as main.py:9-11 leaves them, before main() runs
BotInit ==
    /\ now = 0
    /\ pc = "boot"
    /\ subscribers = {}
    /\ ath_cooldowns = << >>
    /\ all_current_ath_tokens = <<>>
    /\ new_ath_tokens = <<>>
    /\ filter_now = None
    /\ message = ""
    /\ todo = {}
    /\ snapshot = {}
    /\ attempted = {}
    /\ rejected = {}
    /\ sent = 0
    /\ failed = 0
    /\ digests = 0
    /\ committed = {}
    /\ lastEligible = [i \in CoinIds |-> None]
    /\ prevEligible = [i \in CoinIds |-> None]
    /\ baseline = {}
    /\ last_start = [c \in Chats |-> FALSE]

\* Time passes: the main loop sleeps (main.py:763), the scan runs
\* (main.py:499-500), and the clock is read again between the filter
\* (main.py:198) and the write of the cooldowns (main.py:508).  No other
\* step of a check reads the clock before the next of these points.
Tick ==
    /\ pc \in {"idle", "scan", "decide"}
    /\ now < MaxTicks * Quantum
    /\ now' = now + Quantum
    /\ UNCHANGED <<pc, subscribers, last_start, ath_cooldowns, cycleVars, dispatchVars, historyVars>>
    /\ UNCHANGED otherThanBot

\* main.py:457-490  the baseline scan seeds a cooldown for every ATH token
send_startup_report_to_admin ==
    /\ pc = "boot"
    /\ \E ath_tokens \in CandidateLists :
          /\ ath_cooldowns' = SetCooldowns(ath_cooldowns, ath_tokens, now)
          /\ baseline' = Ids(ath_tokens)
    /\ pc' = "idle"
    /\ UNCHANGED <<now, subscribers, last_start, cycleVars, dispatchVars, lastEligible, prevEligible>>
    /\ UNCHANGED otherThanBot

\* main.py:547-643  one inbound update, handled between two checks.  The
\* subscriber set is changed before the reply is sent, and an exception of
\* bot.send_message is caught at main.py:642.
handle_message ==
    /\ pc = "idle"
    /\ \E chat_id \in Chats, text \in Texts, outcome \in SendOutcomes :
          /\ subscribers' = handle_text(subscribers, chat_id, text, outcome)
          /\ last_start' =
                CASE Strip(text) = "/start" -> [last_start EXCEPT ![chat_id] = TRUE]
                  [] Strip(text) = "/stop"  -> [last_start EXCEPT ![chat_id] = FALSE]
                  [] OTHER                  -> last_start
    /\ UNCHANGED <<now, pc, ath_cooldowns, cycleVars, dispatchVars, historyVars>>
    /\ UNCHANGED otherThanBot

\* main.py:492-496  check_ath_tokens starts: clean_old_cooldowns()
CheckStart ==
    /\ pc = "idle"
    /\ ath_cooldowns' = clean_old_cooldowns(ath_cooldowns, now)
    /\ pc' = "scan"
    /\ UNCHANGED <<now, subscribers, last_start, cycleVars, dispatchVars, historyVars>>
    /\ UNCHANGED otherThanBot

\* main.py:499-500  the catalog and detail scan returns its candidates
ScanCoins ==
    /\ pc = "scan"
    /\ \E tokens \in CandidateLists : all_current_ath_tokens' = tokens
    /\ pc' = "filter"
    /\ UNCHANGED <<now, subscribers, last_start, ath_cooldowns, new_ath_tokens, filter_now,
                   message, committed, dispatchVars, historyVars>>
    /\ UNCHANGED otherThanBot

\* main.py:503  new_ath_tokens = filter_new_ath_tokens(all_current_ath_tokens)
FilterStep ==
    /\ pc = "filter"
    /\ LET eligible == filter_new_ath_tokens(ath_cooldowns, now, all_current_ath_tokens)
       IN  /\ new_ath_tokens' = eligible
           /\ filter_now' = now
           /\ lastEligible' = [i \in CoinIds |->
                  IF i \in Ids(eligible) THEN now ELSE lastEligible[i]]
           /\ prevEligible' = [i \in CoinIds |->
                  IF i \in Ids(eligible) THEN lastEligible[i] ELSE prevEligible[i]]
    /\ pc' = "decide"
    /\ UNCHANGED <<now, subscribers, last_start, ath_cooldowns, all_current_ath_tokens, message,
                   committed, dispatchVars, baseline>>
    /\ UNCHANGED otherThanBot

\* main.py:438-442  send_notifications is entered (message and subscribers
\* are truthy: main.py:514, 528), or the send is skipped
BeginDispatch ==
    IF subscribers # {}
    THEN /\ pc' = "dispatch"
         /\ todo' = subscribers
         /\ snapshot' = subscribers
         /\ attempted' = {}
         /\ rejected' = {}
         /\ sent' = 0
         /\ failed' = 0
         /\ digests' = digests + 1
    ELSE /\ pc' = "done"
         /\ UNCHANGED dispatchVars

\* Once the digest is rendered the two token lists are only logged
\* (main.py:516-524, 531): the model keeps them no longer.
DropLists ==
    /\ all_current_ath_tokens' = <<>>
    /\ new_ath_tokens' = <<>>
    /\ filter_now' = None

\* main.py:506-515  new tokens: the cooldowns are written, the alert is rendered
AlertStep ==
    /\ pc = "decide"
    /\ new_ath_tokens # <<>>
    /\ ath_cooldowns' = SetCooldowns(ath_cooldowns, new_ath_tokens, now)
    /\ committed' = Ids(new_ath_tokens)
    /\ message' = create_ath_message(new_ath_tokens)
    /\ BeginDispatch
    /\ DropLists
    /\ UNCHANGED <<now, subscribers, last_start, historyVars>>
    /\ UNCHANGED otherThanBot

\* main.py:506-513, 538-539  new tokens: the cooldowns are written, then
\* create_ath_message raises (a price_change_24h of None at main.py:246,
\* say); the exception is caught at the end of check_ath_tokens and nothing
\* is sent
AlertRenderFails ==
    /\ pc = "decide"
    /\ new_ath_tokens # <<>>
    /\ ath_cooldowns' = SetCooldowns(ath_cooldowns, new_ath_tokens, now)
    /\ committed' = Ids(new_ath_tokens)
    /\ message' = ""
    /\ pc' = "failed"
    /\ DropLists
    /\ UNCHANGED <<now, subscribers, last_start, dispatchVars, historyVars>>
    /\ UNCHANGED otherThanBot

\* main.py:525-531, 295-312  no new token: one of the two no-changes digests
NoChangesStep ==
    /\ pc = "decide"
    /\ new_ath_tokens = <<>>
    /\ message' = create_no_changes_message(Len(all_current_ath_tokens))
    /\ BeginDispatch
    /\ DropLists
    /\ UNCHANGED <<now, subscribers, last_start, ath_cooldowns, committed, historyVars>>
    /\ UNCHANGED otherThanBot

\* main.py:444-453  one iteration of the loop over list(subscribers)
SendOne ==
    /\ pc = "dispatch"
    /\ todo # {}
    /\ \E chat_id \in todo, outcome \in SendOutcomes :
          /\ todo' = todo \ {chat_id}
          /\ attempted' = attempted \cup {chat_id}
          /\ sent' = CountSend(sent, failed, outcome).sent
          /\ failed' = CountSend(sent, failed, outcome).failed
          /\ IF outcome = <<"ok">>
             THEN UNCHANGED subscribers
             ELSE subscribers' = IF IsPermanentFailure(outcome)
                                 THEN subscribers \ {chat_id}
                                 ELSE subscribers
          /\ rejected' = IF outcome \in GoneErrors
                         THEN rejected \cup {chat_id}
                         ELSE rejected
          /\ last_start' = IF outcome \in GoneErrors
                           THEN [last_start EXCEPT ![chat_id] = FALSE]
                           ELSE last_start
    /\ UNCHANGED <<now, pc, ath_cooldowns, snapshot, digests, cycleVars, historyVars>>
    /\ UNCHANGED otherThanBot

\* main.py:455  the loop is over, send_notifications returns
SendDone ==
    /\ pc = "dispatch"
    /\ todo = {}
    /\ pc' = "sent"
    /\ UNCHANGED <<now, subscribers, last_start, ath_cooldowns, cycleVars, dispatchVars, historyVars>>
    /\ UNCHANGED otherThanBot

\* main.py:533-536, 761  check_ath_tokens returns to the main loop
CheckEnd ==
    /\ pc \in {"sent", "done", "failed"}
    /\ pc' = "idle"
    /\ UNCHANGED <<all_current_ath_tokens, new_ath_tokens, filter_now>>
    /\ message' = ""
    /\ committed' = {}
    /\ todo' = {}
    /\ snapshot' = {}
    /\ attempted' = {}
    /\ rejected' = {}
    /\ sent' = 0
    /\ failed' = 0
    /\ digests' = 0
    /\ UNCHANGED <<now, subscribers, last_start, ath_cooldowns, historyVars>>
    /\ UNCHANGED otherThanBot

BotNext ==
    \/ Tick
    \/ send_startup_report_to_admin
    \/ handle_message
    \/ CheckStart
    \/ ScanCoins
    \/ FilterStep
    \/ AlertStep
    \/ AlertRenderFails
    \/ NoChangesStep
    \/ SendOne
    \/ SendDone
    \/ CheckEnd

Init == BotInit /\ MonInit /\ FetchOff /\ DetailOff /\ LoopOff /\ GcOff /\ RenderOff /\ PollOff

Spec == Init /\ [][BotNext]_allVars

(* ----------------------- ath_monitor.py: actions ----------------------- *)

\* time passes: time.sleep(main_interval) between two checks
\* (ath_monitor.py:321), and the fetch of the catalog
MonTick ==
    /\ m_now < MaxTicks * Quantum
    /\ m_now' = m_now + Quantum
    /\ m_pc' = IF m_pc = "sleep" THEN "idle" ELSE m_pc
    /\ UNCHANGED <<sent_file, sent_tokens, m_lastAlert, m_prevAlert, m_lastNoResult, m_noResultGap>>
    /\ UNCHANGED otherThanMon

\* ath_monitor.py:133-135  load_sent_tokens, then clean_old_entries
MonLoad ==
    /\ m_pc = "idle"
    /\ sent_tokens' = clean_old_entries(sent_file, m_now)
    /\ m_pc' = "fetch"
    /\ UNCHANGED <<m_now, sent_file, m_lastAlert, m_prevAlert, m_lastNoResult, m_noResultGap>>
    /\ UNCHANGED otherThanMon

\* the catalog entries get_top_coins_data may return when the clock is t:
\* an all-time high set now, exactly 24 hours ago or earlier than that
MonCoins(t) ==
    {CoinEntry(id, ath_date, complete) :
        id \in CoinIds,
        ath_date \in {t, t - OneDay, t - OneDay - Quantum},
        complete \in BOOLEAN}

\* ath_monitor.py:139-145  no coin data: an error message, nothing saved
MonNoData ==
    /\ m_pc = "fetch"
    /\ m_pc' = "sleep"
    /\ sent_tokens' = << >>
    /\ UNCHANGED <<m_now, sent_file, m_lastAlert, m_prevAlert, m_lastNoResult, m_noResultGap>>
    /\ UNCHANGED otherThanMon

\* ath_monitor.py:147-230  the rest of check_ath_tokens, on the coins fetched
MonCheck ==
    /\ m_pc = "fetch"
    /\ \E coins_data \in SeqsUpTo(MonCoins(m_now), MaxCands) \ {<<>>}, delivered \in BOOLEAN :
          LET current_time == NowUtc(m_now)
              scanned    == ScanForAth(coins_data, <<>>, sent_tokens, current_time)
              ath_tokens == scanned[1]
              marked     == scanned[2]
              alerted    == IF delivered THEN {ath_tokens[k] : k \in 1..Len(ath_tokens)} ELSE {}
          IN  /\ sent_file' =
                    IF ath_tokens # <<>> \/ NoResultThrottled(marked, current_time)
                    THEN marked
                    ELSE [k \in (DOMAIN marked) \cup {"_last_no_result"} |->
                             IF k = "_last_no_result" THEN IsoFormat(current_time)
                             ELSE marked[k]]
              /\ m_lastAlert' = [i \in CoinIds |->
                     IF i \in alerted THEN m_now ELSE m_lastAlert[i]]
              /\ m_prevAlert' = [i \in CoinIds |->
                     IF i \in alerted THEN m_lastAlert[i] ELSE m_prevAlert[i]]
              /\ IF ath_tokens = <<>> /\ ~NoResultThrottled(marked, current_time)
                 THEN /\ m_lastNoResult' = m_now
                      /\ m_noResultGap' = IF m_lastNoResult = None THEN None
                                          ELSE m_now - m_lastNoResult
                 ELSE UNCHANGED <<m_lastNoResult, m_noResultGap>>
    /\ sent_tokens' = << >>
    /\ m_pc' = "sleep"
    /\ UNCHANGED m_now
    /\ UNCHANGED otherThanMon

MonNext ==
    \/ MonTick
    \/ MonLoad
    \/ MonNoData
    \/ MonCheck

SpecMonitor == Init /\ [][MonNext]_allVars

\* ath_monitor.py:293, 321  time.sleep(main_interval): one hour passes
\* between two checks
MonSleep ==
    /\ m_pc = "sleep"
    /\ m_now < MaxHours * MainInterval
    /\ m_now' = m_now + MainInterval
    /\ m_pc' = "idle"
    /\ UNCHANGED <<sent_file, sent_tokens, m_lastAlert, m_prevAlert, m_lastNoResult, m_noResultGap>>
    /\ UNCHANGED otherThanMon

MonHourlyNext ==
    \/ MonSleep
    \/ MonLoad
    \/ MonNoData
    \/ MonCheck

\* ath_monitor.py:277-343  main(): a check every hour
SpecMonitorHourly == Init /\ [][MonHourlyNext]_allVars

(* ------------------------ the catalog fetchers ------------------------- *)

\* get_top_marketcap_coins() is called (main.py:24-30), or
\* get_top_coins_data(max_coins) is (ath_monitor.py:76-89)
FetchInit ==
    /\ BotInit /\ MonInit /\ DetailOff /\ LoopOff /\ GcOff /\ RenderOff /\ PollOff
    /\ f_variant \in {"main", "monitor"}
    /\ f_max_coins \in 0..MaxCoinsArg
    /\ f_variant = "main" => f_max_coins = TotalPages * PerPage
    /\ f_max_pages = IF f_variant = "main" THEN TotalPages
                     ELSE MaxPages(f_max_coins, PerPage)
    /\ f_page = 1
    /\ f_pc = "loop"
    /\ all_coin_data = <<>>
    /\ f_log = <<>>

\* one iteration of the loop over the pages, given what the request did
FetchStep(outcome, adds) ==
    /\ f_log' = Append(f_log, [page |-> f_page, outcome |-> outcome, entries |-> adds])
    /\ all_coin_data' = all_coin_data \o adds
    /\ IF outcome = "error"
       THEN f_pc' = "returned" /\ f_page' = f_page
       ELSE f_pc' = f_pc /\ f_page' = NextPage(f_page, outcome)
    /\ UNCHANGED <<f_variant, f_max_coins, f_max_pages>>
    /\ UNCHANGED otherThanFetch

\* main.py:32-69
MainFetchPage ==
    /\ f_variant = "main" /\ f_pc = "loop" /\ f_page <= f_max_pages
    /\ \E resp \in MainResponses(f_page) : FetchStep(MainOutcome(resp), MainAdds(resp))

\* ath_monitor.py:91-124
MonitorFetchPage ==
    /\ f_variant = "monitor" /\ f_pc = "loop" /\ f_page <= f_max_pages
    /\ \E resp \in MonitorResponses(f_page) : FetchStep(MonitorOutcome(resp), MonitorAdds(resp))

\* main.py:71-72, ath_monitor.py:126-127  the range is exhausted
FetchReturn ==
    /\ f_pc = "loop" /\ f_page > f_max_pages
    /\ f_pc' = "returned"
    /\ UNCHANGED <<f_variant, f_max_coins, f_max_pages, f_page, all_coin_data, f_log>>
    /\ UNCHANGED otherThanFetch

FetchNext ==
    \/ MainFetchPage
    \/ MonitorFetchPage
    \/ FetchReturn

SpecFetch == FetchInit /\ [][FetchNext]_allVars

\* the fetcher keeps running: every request is answered (ath_monitor.py:103
\* has timeout=30) and every sleep ends
SpecFetchLive == FetchInit /\ [][FetchNext]_allVars /\ WF_allVars(FetchNext)

(* ---------------------- main.py: get_coin_ath_data --------------------- *)

\* get_coin_ath_data(coins_data) is called (main.py:78-86)
DetailInit ==
    /\ BotInit /\ MonInit /\ FetchOff /\ LoopOff /\ GcOff /\ RenderOff /\ PollOff
    /\ d_coins \in SeqsUpTo(CoinIds \cup {""}, MaxDetail)
    /\ d_idx = 1
    /\ d_pc = "loop"
    /\ d_ath_tokens = <<>>
    /\ d_log = <<>>

\* main.py:90-93  a coin without id: no request
DetailSkipNoId ==
    /\ d_pc = "loop" /\ d_idx <= Len(d_coins)
    /\ d_coins[d_idx] = ""
    /\ d_idx' = d_idx + 1
    /\ UNCHANGED <<d_coins, d_pc, d_ath_tokens, d_log>>
    /\ UNCHANGED otherThanDetail

\* main.py:95-169  one iteration with a request
DetailFetchOne ==
    /\ d_pc = "loop" /\ d_idx <= Len(d_coins)
    /\ d_coins[d_idx] # ""
    /\ \E resp \in DetailResponses(now) :
          /\ d_log' = Append(d_log, [idx |-> d_idx, id |-> d_coins[d_idx],
                                     outcome |-> DetailOutcome(resp), resp |-> resp])
          /\ d_ath_tokens' = IF GivesToken(resp, now)
                             THEN Append(d_ath_tokens, TokenData(d_coins[d_idx], resp))
                             ELSE d_ath_tokens
          /\ d_idx' = NextCoin(d_idx, DetailOutcome(resp))
    /\ UNCHANGED <<d_coins, d_pc>>
    /\ UNCHANGED otherThanDetail

\* main.py:174-178  the tokens are sorted by rank and returned
DetailReturn ==
    /\ d_pc = "loop" /\ d_idx > Len(d_coins)
    /\ d_ath_tokens' = SortByRank(d_ath_tokens)
    /\ d_pc' = "returned"
    /\ UNCHANGED <<d_coins, d_idx, d_log>>
    /\ UNCHANGED otherThanDetail

DetailNext ==
    \/ DetailSkipNoId
    \/ DetailFetchOne
    \/ DetailReturn

SpecDetail == DetailInit /\ [][DetailNext]_allVars

(* --------------------------- the main loops --------------------------- *)

\* the model follows the loops until this time
LoopEnd == (MaxHours + 1) * HourSeconds

\* main() of one of the two programs is started, with or without its
\* credentials in the environment
LoopInit ==
    /\ BotInit /\ MonInit /\ FetchOff /\ DetailOff /\ GcOff /\ RenderOff /\ PollOff
    /\ l_variant \in {"main", "monitor"}
    /\ l_token \in BOOLEAN
    /\ l_chat_id \in BOOLEAN
    /\ l_variant = "main" => l_chat_id
    /\ l_pc = "start"
    /\ l_time \in StartTimes
    /\ l_current_time = 0
    /\ last_hourly_check = 0
    /\ l_pending = 0
    /\ l_scan_update = FALSE
    /\ l_cycles = 0
    /\ l_raised = FALSE
    /\ l_fetched = FALSE
    /\ l_notified = FALSE
    /\ l_looped = FALSE
    /\ l_last_start = None

\* main.py:706-725  main() returns when BOT_TOKEN is not set
MainStart ==
    /\ l_variant = "main" /\ l_pc = "start"
    /\ l_pc' = IF CredentialsOk(l_variant, l_token, l_chat_id) THEN "startup" ELSE "exited"
    /\ UNCHANGED <<l_variant, l_token, l_chat_id, l_time, l_current_time, last_hourly_check,
                   l_pending, l_scan_update, l_cycles, l_raised, l_fetched, l_notified,
                   l_looped>>
    /\ UNCHANGED l_last_start
    /\ UNCHANGED otherThanLoop

\* main.py:727-740  the test post, then the baseline scan of
\* send_startup_report_to_admin, which catches its exceptions
MainStartup ==
    /\ l_variant = "main" /\ l_pc = "startup"
    /\ \E d \in CheckDurations, raised \in BOOLEAN :
          /\ l_time' = l_time + d
          /\ l_raised' = raised
          /\ l_pc' = IF raised THEN AfterCycleError(l_variant, TRUE) ELSE "poll"
    /\ l_cycles' = l_cycles + 1
    /\ l_fetched' = TRUE
    /\ l_notified' = TRUE
    /\ UNCHANGED <<l_variant, l_token, l_chat_id, l_current_time, last_hourly_check,
                   l_pending, l_scan_update, l_looped>>
    /\ UNCHANGED l_last_start
    /\ UNCHANGED otherThanLoop

\* an inbound update reaches Telegram while the bot runs
Arrive ==
    /\ l_variant = "main"
    /\ l_pc \in {"startup", "poll", "timecheck", "check", "sleep"}
    /\ l_pending < MaxPending
    /\ l_pending' = l_pending + 1
    /\ l_scan_update' = (l_scan_update \/ l_pc = "check")
    /\ UNCHANGED <<l_variant, l_token, l_chat_id, l_pc, l_time, l_current_time,
                   last_hourly_check, l_cycles, l_raised, l_fetched, l_notified, l_looped>>
    /\ UNCHANGED l_last_start
    /\ UNCHANGED otherThanLoop

\* main.py:745-748  get_updates (a long poll of 10 s that returns at once
\* when updates wait), then handle_message for each update
MainPoll ==
    /\ l_variant = "main" /\ l_pc = "poll"
    /\ l_time < LoopEnd
    /\ l_time' = IF l_pending = 0 THEN l_time + PollInterval ELSE l_time
    /\ l_pending' = 0
    /\ l_scan_update' = FALSE
    /\ l_looped' = TRUE
    /\ l_pc' = "timecheck"
    /\ UNCHANGED <<l_variant, l_token, l_chat_id, l_current_time, last_hourly_check,
                   l_cycles, l_raised, l_fetched, l_notified>>
    /\ UNCHANGED l_last_start
    /\ UNCHANGED otherThanLoop

\* main.py:768-770  an exception in the iteration (an update without
\* update_id, say): logged, 30 s of sleep, the next iteration
MainLoopError ==
    /\ l_variant = "main" /\ l_pc = "poll"
    /\ l_time < LoopEnd
    /\ l_pending > 0
    /\ l_time' = l_time + ErrorBackoff
    /\ l_looped' = TRUE
    /\ UNCHANGED <<l_variant, l_token, l_chat_id, l_pc, l_current_time, last_hourly_check,
                   l_pending, l_scan_update, l_cycles, l_raised, l_fetched, l_notified>>
    /\ UNCHANGED l_last_start
    /\ UNCHANGED otherThanLoop

\* main.py:751-758  is a check due?  current_time is read again in every
\* iteration and used only at main.py:761: the model keeps it for the
\* iterations that start a check.
MainTimeCheck ==
    /\ l_variant = "main" /\ l_pc = "timecheck"
    /\ IF IsCheckTime(l_time, last_hourly_check)
       THEN /\ l_pc' = "check" /\ l_cycles' = l_cycles + 1
            /\ l_current_time' = Monotonic(l_time)
            /\ l_last_start' = l_time
       ELSE /\ l_pc' = "sleep" /\ l_cycles' = l_cycles /\ l_current_time' = 0
            /\ l_last_start' = l_last_start
    /\ UNCHANGED <<l_variant, l_token, l_chat_id, l_time, last_hourly_check, l_pending,
                   l_scan_update, l_raised, l_fetched, l_notified, l_looped>>
    /\ UNCHANGED otherThanLoop

\* main.py:760-761  await check_ath_tokens(bot): the loop does nothing else
\* until it returns; an exception in it is caught at main.py:538
MainCheck ==
    /\ l_variant = "main" /\ l_pc = "check"
    /\ \E d \in CheckDurations, raised \in BOOLEAN :
          /\ l_time' = l_time + d
          /\ l_raised' = raised
          /\ l_pc' = IF raised THEN AfterCycleError(l_variant, FALSE) ELSE "sleep"
    /\ last_hourly_check' = l_current_time
    /\ l_current_time' = 0
    /\ l_fetched' = TRUE
    /\ l_notified' = TRUE
    /\ UNCHANGED <<l_variant, l_token, l_chat_id, l_pending, l_scan_update,
                   l_cycles, l_looped>>
    /\ UNCHANGED l_last_start
    /\ UNCHANGED otherThanLoop

\* main.py:763  asyncio.sleep(10)
MainSleep ==
    /\ l_variant = "main" /\ l_pc = "sleep"
    /\ l_time < LoopEnd
    /\ l_time' = l_time + PollInterval
    /\ l_pc' = "poll"
    /\ UNCHANGED <<l_variant, l_token, l_chat_id, l_current_time, last_hourly_check,
                   l_pending, l_scan_update, l_cycles, l_raised, l_fetched, l_notified,
                   l_looped>>
    /\ UNCHANGED l_last_start
    /\ UNCHANGED otherThanLoop

\* ath_monitor.py:277-284, 232-275  test_credentials: without the token or
\* the chat id main() returns at once; with them a test message is sent and
\* the API is pinged, and main() returns when either fails
MonitorStart ==
    /\ l_variant = "monitor" /\ l_pc = "start"
    /\ IF CredentialsOk(l_variant, l_token, l_chat_id)
       THEN /\ l_notified' = TRUE
            /\ \E test_ok \in BOOLEAN : l_pc' = IF test_ok THEN "startup" ELSE "exited"
       ELSE /\ l_notified' = l_notified
            /\ l_pc' = "exited"
    /\ UNCHANGED <<l_variant, l_token, l_chat_id, l_time, l_current_time, last_hourly_check,
                   l_pending, l_scan_update, l_cycles, l_raised, l_fetched, l_looped>>
    /\ UNCHANGED l_last_start
    /\ UNCHANGED otherThanLoop

\* ath_monitor.py:289-315  the startup message and the first run of
\* check_ath_tokens
MonitorStartup ==
    /\ l_variant = "monitor" /\ l_pc = "startup"
    /\ \E raised \in BOOLEAN :
          /\ l_raised' = raised
          /\ l_pc' = IF raised THEN AfterCycleError(l_variant, TRUE) ELSE "sleep"
    /\ l_cycles' = l_cycles + 1
    /\ l_fetched' = TRUE
    /\ l_notified' = TRUE
    /\ UNCHANGED <<l_variant, l_token, l_chat_id, l_time, l_current_time, last_hourly_check,
                   l_pending, l_scan_update, l_looped>>
    /\ UNCHANGED l_last_start
    /\ UNCHANGED otherThanLoop

\* ath_monitor.py:318-321  time.sleep(main_interval)
MonitorSleep ==
    /\ l_variant = "monitor" /\ l_pc = "sleep"
    /\ l_time < LoopEnd
    /\ l_time' = l_time + MainInterval
    /\ l_looped' = TRUE
    /\ l_pc' = "check"
    /\ UNCHANGED <<l_variant, l_token, l_chat_id, l_current_time, last_hourly_check,
                   l_pending, l_scan_update, l_cycles, l_raised, l_fetched, l_notified>>
    /\ UNCHANGED l_last_start
    /\ UNCHANGED otherThanLoop

\* ath_monitor.py:323-339  a scheduled run of check_ath_tokens
MonitorCheck ==
    /\ l_variant = "monitor" /\ l_pc = "check"
    /\ \E raised \in BOOLEAN :
          /\ l_raised' = raised
          /\ l_pc' = IF raised THEN AfterCycleError(l_variant, FALSE) ELSE "sleep"
    /\ l_cycles' = l_cycles + 1
    /\ UNCHANGED <<l_variant, l_token, l_chat_id, l_time, l_current_time, last_hourly_check,
                   l_pending, l_scan_update, l_fetched, l_notified, l_looped>>
    /\ UNCHANGED l_last_start
    /\ UNCHANGED otherThanLoop

\* ath_monitor.py:341-343  time.sleep(300), then the loop goes on
MonitorBackoff ==
    /\ l_variant = "monitor" /\ l_pc = "backoff"
    /\ l_time' = l_time + RetryWait
    /\ l_pc' = "sleep"
    /\ UNCHANGED <<l_variant, l_token, l_chat_id, l_current_time, last_hourly_check,
                   l_pending, l_scan_update, l_cycles, l_raised, l_fetched, l_notified,
                   l_looped>>
    /\ UNCHANGED l_last_start
    /\ UNCHANGED otherThanLoop

LoopNext ==
    \/ MainStart
    \/ MainStartup
    \/ Arrive
    \/ MainPoll
    \/ MainLoopError
    \/ MainTimeCheck
    \/ MainCheck
    \/ MainSleep
    \/ MonitorStart
    \/ MonitorStartup
    \/ MonitorSleep
    \/ MonitorCheck
    \/ MonitorBackoff

SpecLoop == LoopInit /\ [][LoopNext]_allVars

(* ------- clean_old_cooldowns and filter_new_ath_tokens, on their own --- *)

\* the ages of the cooldown records of the model: new, a second short of
\* the window, the window exactly, a second over it, two windows
RecordAges ==
    {0, CooldownSeconds - 1, CooldownSeconds, CooldownSeconds + 1, 2 * CooldownSeconds}

\* the cooldown maps of the model at time t: every coin has no record or a
\* record of one of these ages
CooldownMaps(t) ==
    UNION {[ids -> {t - a : a \in RecordAges}] : ids \in SUBSET CoinIds}

\* a cooldown map, a candidate list and a time
GcInit ==
    /\ BotInit /\ MonInit /\ FetchOff /\ DetailOff /\ LoopOff /\ RenderOff /\ PollOff
    /\ g_now = 2 * CooldownSeconds
    /\ g_cooldowns \in CooldownMaps(g_now)
    /\ g_tokens \in CandidateLists
    /\ g_plain = <<>>
    /\ g_cleaned = <<>>
    /\ g_pc = "call"

\* filter_new_ath_tokens(g_tokens) on the map as it is, and on the map
\* after clean_old_cooldowns(), both at g_now
GcCompare ==
    /\ g_pc = "call"
    /\ g_plain' = filter_new_ath_tokens(g_cooldowns, g_now, g_tokens)
    /\ g_cleaned' = filter_new_ath_tokens(clean_old_cooldowns(g_cooldowns, g_now), g_now, g_tokens)
    /\ g_pc' = "done"
    /\ UNCHANGED <<g_now, g_cooldowns, g_tokens>>
    /\ UNCHANGED otherThanGc

GcNext == GcCompare

SpecGc == GcInit /\ [][GcNext]_allVars

(* ------------------------- the digests, rendered ----------------------- *)

\* a digest is about to be rendered from a token list; main.py has just
\* been started (the subscribers and the cooldown map change through
\* send_startup_report_to_admin and handle_message)
RenderInit ==
    /\ BotInit /\ MonInit /\ FetchOff /\ DetailOff /\ LoopOff /\ GcOff /\ PollOff
    /\ r_pc = "call"
    /\ r_variant \in {"alert", "startup", "monitor"}
    /\ r_tokens \in RenderLists
    /\ r_text = <<>>
    /\ r_text2 = <<>>
    /\ r_subs = {}
    /\ r_cooldowns = << >>

\* The digest of r_tokens as the program renders it now.  main.py:513
\* create_ath_message(new_ath_tokens, len(all_current_ath_tokens));
\* main.py:461, 468 create_startup_report of what get_coin_ath_data
\* returned, which is sorted by rank (main.py:175); ath_monitor.py:196-214.
RenderNow ==
    CASE r_variant = "alert" ->
             AthMessage(r_tokens, Len(r_tokens) + 1, now, subscribers, ath_cooldowns)
      [] r_variant = "startup" ->
             create_startup_report(SortByRank(r_tokens), now, subscribers)
      [] OTHER ->
             MonitorDigest(r_tokens)

\* the first call
RenderCall ==
    /\ r_pc = "call"
    /\ r_text' = RenderNow
    /\ r_subs' = subscribers
    /\ r_cooldowns' = ath_cooldowns
    /\ r_pc' = "once"
    /\ UNCHANGED <<r_variant, r_tokens, r_text2>>
    /\ UNCHANGED botVars
    /\ UNCHANGED otherThanRender

\* a second call with the same arguments, at the same clock reading
RenderAgain ==
    /\ r_pc = "once"
    /\ r_text2' = RenderNow
    /\ r_pc' = "twice"
    /\ UNCHANGED <<r_variant, r_tokens, r_text, r_subs, r_cooldowns>>
    /\ UNCHANGED botVars
    /\ UNCHANGED otherThanRender

\* the program runs before the first call and between the two calls: the
\* baseline scan writes cooldown records, chats subscribe and unsubscribe
RenderNext ==
    \/ r_pc # "twice" /\ send_startup_report_to_admin
    \/ r_pc # "twice" /\ handle_message
    \/ RenderCall
    \/ RenderAgain

SpecRender == RenderInit /\ [][RenderNext]_allVars

(* ------------------------- the polling offset -------------------------- *)

\* main.py:739-742  main() enters its loop with offset = 0
PollInit ==
    /\ BotInit /\ MonInit /\ FetchOff /\ DetailOff /\ LoopOff /\ GcOff /\ RenderOff
    /\ u_pc = "poll"
    /\ offset = 0
    /\ updates = <<>>
    /\ tg_pending = <<>>
    /\ tg_next_id = FirstUpdateId
    /\ handled = [u \in FirstUpdateId..(FirstUpdateId + MaxUpdates - 1) |-> 0]
    /\ poll_failed = FALSE

\* somebody writes to the bot: Telegram queues an update with the next id
UpdateArrives ==
    /\ u_pc # "off"
    /\ tg_next_id < FirstUpdateId + MaxUpdates
    /\ tg_pending' = Append(tg_pending, tg_next_id)
    /\ tg_next_id' = tg_next_id + 1
    /\ UNCHANGED <<u_pc, offset, updates, handled, poll_failed>>
    /\ UNCHANGED otherThanPoll

\* main.py:745, 684-698  get_updates succeeds: Telegram forgets the updates
\* below the offset and returns the others
GetUpdatesOk ==
    /\ u_pc = "poll"
    /\ tg_pending' = UpdatesFrom(tg_pending, offset)
    /\ updates' = UpdatesFrom(tg_pending, offset)
    /\ u_pc' = "handle"
    /\ UNCHANGED <<offset, tg_next_id, handled, poll_failed>>
    /\ UNCHANGED otherThanPoll

\* main.py:699-704  get_updates fails (a status other than 200, or an
\* exception): it returns []
GetUpdatesFails ==
    /\ u_pc = "poll"
    /\ updates' = <<>>
    /\ poll_failed' = (poll_failed \/ UpdatesFrom(tg_pending, offset) # <<>>)
    /\ u_pc' = "handle"
    /\ UNCHANGED <<offset, tg_pending, tg_next_id, handled>>
    /\ UNCHANGED otherThanPoll

\* main.py:746-748  one iteration of the loop over updates: handle_message
\* returns (it catches its exceptions, main.py:642), then the offset is set
HandleUpdate ==
    /\ u_pc = "handle"
    /\ updates # <<>>
    /\ handled' = [handled EXCEPT ![Head(updates)] = @ + 1]
    /\ offset' = NextOffset(Head(updates))
    /\ updates' = Tail(updates)
    /\ UNCHANGED <<u_pc, tg_pending, tg_next_id, poll_failed>>
    /\ UNCHANGED otherThanPoll

\* main.py:750-763  the rest of the iteration (time test, check, sleep),
\* then the next iteration
NextIteration ==
    /\ u_pc = "handle"
    /\ updates = <<>>
    /\ u_pc' = "poll"
    /\ UNCHANGED <<offset, updates, tg_pending, tg_next_id, handled, poll_failed>>
    /\ UNCHANGED otherThanPoll

PollNext ==
    \/ UpdateArrives
    \/ GetUpdatesOk
    \/ GetUpdatesFails
    \/ HandleUpdate
    \/ NextIteration

SpecPoll == PollInit /\ [][PollNext]_allVars

(* ------------------------ properties: main.py -------------------------- *)

\* C1  Cooldown safety (main.py): whenever a coin has been put in the
\* eligible list by two checks, the two most recent of those times are at
\* least 24 hours (CooldownSeconds) apart.
C1_CooldownSafetyMain ==
    \A i \in CoinIds :
        prevEligible[i] # None => lastEligible[i] - prevEligible[i] >= CooldownSeconds

\* a coin was eligible twice, the second time exactly 24 hours after the first
C1_Witness ==
    \E i \in CoinIds :
        /\ prevEligible[i] # None
        /\ lastEligible[i] - prevEligible[i] = CooldownSeconds

\* C3  what the contract says of one candidate: no record, or a record at
\* least 24 hours old when the filter read the clock
C3_Eligible(token) ==
    \/ token.id \notin DOMAIN ath_cooldowns
    \/ filter_now - ath_cooldowns[token.id] >= CooldownSeconds

\* C3  filter_new_ath_tokens returns exactly the candidates with no record
\* or with a record at least 24 hours old (24 hours exactly is eligible),
\* in their order; every other candidate is suppressed.
C3_FilterExact ==
    pc = "decide" => new_ath_tokens = SelectSeq(all_current_ath_tokens, C3_Eligible)

\* the filter has kept a candidate whose record is exactly 24 hours old and
\* suppressed another whose record is younger
C3_Witness ==
    /\ pc = "decide"
    /\ \E k \in 1..Len(new_ath_tokens) :
          /\ new_ath_tokens[k].id \in DOMAIN ath_cooldowns
          /\ filter_now - ath_cooldowns[new_ath_tokens[k].id] = CooldownSeconds
    /\ \E k \in 1..Len(all_current_ath_tokens) :
          /\ all_current_ath_tokens[k].id \in DOMAIN ath_cooldowns
          /\ filter_now - ath_cooldowns[all_current_ath_tokens[k].id] < CooldownSeconds
          /\ all_current_ath_tokens[k].id \notin Ids(new_ath_tokens)

\* the digest of the check that is ending reached at least one subscriber
Delivered == pc = "sent" /\ sent > 0

\* C4  (main.py) A check whose digest was not delivered (no subscribers, or
\* every send failed) writes no cooldown record.
C4_RecordOnlyIfDispatched ==
    (pc \in {"sent", "done"} /\ ~Delivered) => committed = {}

\* C10  When send_notifications returns, delivery was attempted for every
\* chat id that was subscribed when it began, and the subscriber set is that
\* set minus exactly the recipients whose send raised a blocked / chat not
\* found error.
C10_DispatcherPruning ==
    pc = "sent" =>
        /\ attempted = snapshot
        /\ subscribers = snapshot \ rejected

\* three subscribers, one of them raised such an error, two did not
C10_Witness ==
    /\ pc = "sent"
    /\ snapshot = Chats
    /\ Cardinality(rejected) = 1
    /\ sent + failed = 3
    /\ failed = 2

\* the digest the contract asks for, given the two lists of the check
C20_Expected ==
    IF new_ath_tokens # <<>> THEN "alert"
    ELSE IF all_current_ath_tokens = <<>> THEN "no_ath_found" ELSE "no_new_changes"

\* C20  A check that gets through (no exception) with at least one
\* subscriber hands exactly one digest to the send loop, for all the
\* subscribers: the alert when there are eligible tokens, else the no-ATH
\* digest when the scan found none and the all-in-cooldown digest when it
\* found some.
C20_NeverSilent ==
    /\ [][(pc = "decide" /\ pc' \notin {"decide", "failed"} /\ subscribers # {}) =>
             /\ pc' = "dispatch"
             /\ message' = C20_Expected
             /\ digests' = 1
             /\ todo' = subscribers]_allVars
    /\ [](pc = "sent" => (digests = 1 /\ attempted = snapshot /\ snapshot # {}))
    /\ [](pc = "done" => (digests = 0 /\ subscribers = {}))

\* the all-in-cooldown digest went out to two subscribers
C20_Witness ==
    /\ pc = "sent"
    /\ message = "no_new_changes"
    /\ digests = 1
    /\ sent = 2

\* C11  A failed send whose error is not blocked / chat not found leaves
\* the subscriber set as it was and does not end send_notifications: the
\* loop goes on, and when it returns every recipient of the snapshot was
\* tried, each counted once as sent or failed.
C11_TransientFailureFrame ==
    /\ [][(pc = "dispatch" /\ failed' = failed + 1 /\ rejected' = rejected) =>
             (subscribers' = subscribers /\ pc' = "dispatch")]_allVars
    /\ [](pc = "sent" => (attempted = snapshot /\ sent + failed = Cardinality(snapshot)))

\* a dispatch to three recipients has returned: two sends failed with other
\* errors, one succeeded, nobody was pruned
C11_Witness ==
    /\ pc = "sent"
    /\ snapshot = Chats
    /\ failed = 2
    /\ sent = 1
    /\ rejected = {}
    /\ subscribers = snapshot

\* C12  Subscriber lifecycle: a chat id is subscribed exactly when /start
\* is the most recent of its /start, /stop and permanent delivery failures;
\* a message that is no such event (/status, other text, a repeated
\* /start) changes neither the subscriber set nor the cooldown map, whether
\* or not the reply could be sent.
C12_SubscriberLifecycle ==
    /\ [](\A c \in Chats : c \in subscribers <=> last_start[c])
    /\ [][(pc = "idle" /\ pc' = "idle" /\ now' = now) =>
             /\ ath_cooldowns' = ath_cooldowns
             /\ last_start' = last_start => subscribers' = subscribers]_allVars

\* a dispatch has returned: one subscriber was pruned by a permanent
\* failure, another is still subscribed, a third chat never subscribed or
\* has stopped
C12_Witness ==
    /\ pc = "sent"
    /\ Cardinality(rejected) = 1
    /\ Cardinality(snapshot) = 2
    /\ Cardinality(subscribers) = 1
    /\ \A c \in rejected : ~last_start[c]

\* C17  filter_new_ath_tokens returns the same list whether or not
\* clean_old_cooldowns was run first at the same time.
C17_GcInvisible ==
    g_pc = "done" => g_cleaned = g_plain

\* clean_old_cooldowns removed the record of one candidate and kept that of
\* another, whose age is the window exactly; both candidates are eligible
C17_Witness ==
    /\ g_pc = "done"
    /\ Len(g_tokens) = 2
    /\ g_plain = g_tokens
    /\ \E i, j \in Ids(g_tokens) :
          /\ i \in DOMAIN g_cooldowns
          /\ i \notin DOMAIN clean_old_cooldowns(g_cooldowns, g_now)
          /\ j \in DOMAIN clean_old_cooldowns(g_cooldowns, g_now)
          /\ g_now - g_cooldowns[j] = CooldownSeconds

\* C27  Startup baseline seeding: when send_startup_report_to_admin
\* completes, every id of the baseline scan has a cooldown record stamped
\* with the time of the startup and nothing was dispatched to a subscriber;
\* the eligible list of a check whose filter runs less than 24 hours after
\* the startup (time 0) holds none of these ids.
C27_BaselineSeeding ==
    /\ [][(pc = "boot" /\ pc' = "idle") =>
             /\ \A id \in baseline' :
                   id \in DOMAIN ath_cooldowns' /\ ath_cooldowns'[id] = now'
             /\ digests' = 0 /\ attempted' = {}]_allVars
    /\ []((filter_now # None /\ filter_now < CooldownSeconds) =>
             Ids(new_ath_tokens) \cap baseline = {})

\* sixteen hours after the startup a check finds a coin of the baseline
\* scan again and leaves it out, while it lets another coin through
C27_Witness ==
    /\ filter_now = 2 * Quantum
    /\ baseline \cap Ids(all_current_ath_tokens) # {}
    /\ new_ath_tokens # <<>>
    /\ Ids(new_ath_tokens) \cap baseline = {}

\* C30  No coin is alerted twice in one cycle: the eligible list a check of
\* main.py renders and dispatches holds each coin id at most once.
C30_NoDuplicateAlert ==
    \A j, k \in 1..Len(new_ath_tokens) :
        j # k => new_ath_tokens[j].id # new_ath_tokens[k].id

\* C31  Dispatch accounting: when send_notifications finishes, sent + failed
\* is the number of subscribers there were when the dispatch began, the
\* subscriber set is a subset of the set there was then, and at most failed
\* subscribers were removed.
C31_DispatchAccounting ==
    pc = "sent" =>
        /\ sent + failed = Cardinality(snapshot)
        /\ subscribers \subseteq snapshot
        /\ Cardinality(snapshot \ subscribers) <= failed

\* a dispatch to three subscribers has finished: one send went through,
\* one failed for good and removed its subscriber, one failed and left its
\* subscriber in the set
C31_Witness ==
    /\ pc = "sent"
    /\ Cardinality(snapshot) = 3
    /\ sent = 1
    /\ failed = 2
    /\ Cardinality(snapshot \ subscribers) = 1

(* ----------------------- properties: the digests ----------------------- *)

\* the display threshold of each digest
C21_Threshold ==
    CASE r_variant = "alert"   -> BreakEvery
      [] r_variant = "startup" -> StartupShown
      [] OTHER                 -> MonitorShown

\* the candidates in the order of the digest
C21_Ordered ==
    IF r_variant = "monitor" THEN SortByMarketCap(r_tokens) ELSE SortByRank(r_tokens)

\* C21  Digest truncation: a digest rendered from a list longer than the
\* display threshold has line-groups for the first threshold candidates
\* only, then an "N more" trailer with N = length - threshold, and its
\* count header reports the full length; in create_ath_message, in the
\* digest of ath_monitor.py and in the startup report.
C21_DigestTruncation ==
    (r_pc \in {"once", "twice"} /\ Len(r_tokens) > C21_Threshold) =>
        /\ Len(r_text.groups) = C21_Threshold
        /\ \A i \in 1..Len(r_text.groups) : r_text.groups[i].id = C21_Ordered[i].id
        /\ r_text.more = Len(r_tokens) - C21_Threshold
        /\ r_text.count = Len(r_tokens)

\* the token of r_tokens with this id
C22_TokenOf(id) == CHOOSE t \in {r_tokens[k] : k \in 1..Len(r_tokens)} : t.id = id

\* its position in r_tokens: the tokens were found in that order
C22_FoundAt(id) == CHOOSE k \in 1..Len(r_tokens) : r_tokens[k].id = id

\* the sort key of a line-group: the rank in main.py (lines 175, 230), the
\* market cap, largest first, in ath_monitor.py (line 198)
C22_Key(group) ==
    IF r_variant = "monitor" THEN 0 - C22_TokenOf(group.id).market_cap ELSE group.rank

\* C22  Digest order: the line-groups of a digest are in ascending order of
\* rank, and those of equal rank in ascending order of identifier, whatever
\* the order in which the tokens were found.
C22_DigestOrder ==
    r_pc \in {"once", "twice"} =>
        \A i \in 1..(Len(r_text.groups) - 1) :
            \/ r_text.groups[i].rank < r_text.groups[i + 1].rank
            \/ /\ r_text.groups[i].rank = r_text.groups[i + 1].rank
               /\ r_text.groups[i].id < r_text.groups[i + 1].id

\* C22 amended: the line-groups of the digests of main.py are in ascending
\* order of rank, those of ath_monitor.py in descending order of market
\* cap; candidates with equal keys appear in the order in which they were
\* found (the sorts are stable), not in the order of their identifiers.
C22_StableKeyOrder ==
    r_pc \in {"once", "twice"} =>
        \A i, j \in 1..Len(r_text.groups) :
            i < j =>
                \/ C22_Key(r_text.groups[i]) < C22_Key(r_text.groups[j])
                \/ /\ C22_Key(r_text.groups[i]) = C22_Key(r_text.groups[j])
                   /\ C22_FoundAt(r_text.groups[i].id) < C22_FoundAt(r_text.groups[j].id)

\* an alert rendered from tokens found in descending order of id, two to
\* each rank: the ranks ascend, and within a rank the higher id comes first
C22_Witness ==
    /\ r_pc = "once"
    /\ r_variant = "alert"
    /\ Len(r_text.groups) > BreakEvery
    /\ r_text.groups[1].rank = r_text.groups[2].rank
    /\ r_text.groups[1].id > r_text.groups[2].id
    /\ r_text.groups[2].rank < r_text.groups[3].rank

\* C23  Render determinism: two calls of create_ath_message with the same
\* token list and total count at the same clock reading return identical
\* text, whatever the subscriber set and the cooldown map hold at each call.
C23_RenderDeterminism ==
    (r_pc = "twice" /\ r_variant = "alert") => r_text2 = r_text

\* C23 amended: the two texts are identical when the number of subscribers
\* is the same at both calls, whichever chats are subscribed and whatever
\* the cooldown map holds; with another number of subscribers the footer
\* differs (main.py:290).
C23_SameUpToSubscriberCount ==
    (r_pc = "twice" /\ r_variant = "alert") =>
        /\ Cardinality(subscribers) = Cardinality(r_subs) => r_text2 = r_text
        /\ Cardinality(subscribers) # Cardinality(r_subs) =>
              /\ r_text2 # r_text
              /\ [r_text2 EXCEPT !.footer = r_text.footer] = r_text

\* the alert was rendered twice from a list with a break line, with as many
\* subscribers the second time but not the same ones
C23_Witness ==
    /\ r_pc = "twice"
    /\ r_variant = "alert"
    /\ r_text.breaks # {}
    /\ subscribers # r_subs
    /\ Cardinality(subscribers) = Cardinality(r_subs)
    /\ r_text2 = r_text

\* the field shows the price rounded to this many decimals
C24_Shows(field, price, digits) ==
    LET unit == 10 ^ (6 - digits)
        diff == field.units * unit - price
    IN  /\ field.decimals = digits
        /\ 2 * diff <= unit /\ 2 * diff >= 0 - unit

\* six decimals below one cent, two decimals from one cent on
C24_Adaptive(field, price) ==
    C24_Shows(field, price, IF price < Cent THEN 6 ELSE 2)

\* every price a text shows: <<field, price>>
C24_PricesOf(text) ==
    {<<text.groups[i].current, C22_TokenOf(text.groups[i].id).current_price>> :
        i \in 1..Len(text.groups)}
    \cup {<<text.groups[i].ath, C22_TokenOf(text.groups[i].id).ath_price>> :
        i \in {j \in 1..Len(text.groups) : text.groups[j].ath # NoPrice}}

C25_NoRedelivery ==
    /\ [](\A u \in DOMAIN handled : handled[u] <= 1)
    /\ [][/\ offset' >= offset
          /\ (handled' # handled) =>
                \E u \in DOMAIN handled :
                    /\ handled' = [handled EXCEPT ![u] = @ + 1]
                    /\ offset' = u + 1
          /\ (u_pc = "poll") => offset' = offset]_allVars

\* every update of the model was handled once, the offset is one above the
\* last update_id, and a poll had failed while an update was pending
C25_Witness ==
    /\ \A u \in DOMAIN handled : handled[u] = 1
    /\ offset = FirstUpdateId + MaxUpdates
    /\ poll_failed
    /\ u_pc = "poll"

\* C13  An inbound update that arrives while a check cycle is in progress
\* is polled and handled before that cycle finishes: no such update is
\* still waiting once the cycle is over.
C13_NotStarvedByScan ==
    l_scan_update => l_pc = "check"

\* the hour boundaries after the start of the process that lie at least a
\* minute (twice the window of main.py:755) in the past
C14_BoundariesPassed == (l_time - 2 * WindowSeconds) \div HourSeconds

\* C14  main.py: besides the scan at startup, a check cycle has been
\* started for every GMT+8 hour boundary that has passed.
C14_CheckEveryHour ==
    (l_variant = "main" /\ l_pc \in {"poll", "timecheck", "check", "sleep"}) =>
        l_cycles - 1 >= C14_BoundariesPassed

\* main() is in its scheduling loop
C15_InLoop == l_pc \in {"poll", "timecheck", "check", "sleep", "backoff"}

\* the last cycle was the first run of ath_monitor.py and raised
C15_FirstMonitorRunRaised == l_raised /\ l_variant = "monitor" /\ l_cycles = 1

\* C15  An exception raised inside a check cycle, the first cycle at
\* startup included, never terminates the process, in main.py and in
\* ath_monitor.py.
C15_NeverTerminates ==
    l_raised => l_pc # "exited"

\* C15 amended: an exception raised inside a check cycle leaves main() in
\* its scheduling loop, in main.py (startup scan included) and for the
\* scheduled cycles of ath_monitor.py; an exception raised by the first run
\* of ath_monitor.py at startup makes its main() return.
C15_ScheduledCycleRecovery ==
    /\ (l_raised /\ ~C15_FirstMonitorRunRaised) => C15_InLoop
    /\ C15_FirstMonitorRunRaised => l_pc = "exited"

\* a scheduled cycle of ath_monitor.py has raised and main() waits to go on
C15_Witness ==
    /\ l_variant = "monitor"
    /\ l_raised
    /\ l_cycles = 2
    /\ l_pc = "backoff"

\* a credential the program requires is not set
C16_CredentialMissing ==
    \/ l_variant = "main" /\ ~l_token
    \/ l_variant = "monitor" /\ (~l_token \/ ~l_chat_id)

\* C16  With a required credential missing, main() returns before any
\* catalog fetch, check cycle (and so any cooldown or sent-token update),
\* iteration of the scheduling loop or notification.
C16_RefusesToStart ==
    C16_CredentialMissing =>
        /\ l_pc \in {"start", "exited"}
        /\ ~l_fetched /\ ~l_notified /\ ~l_looped
        /\ l_cycles = 0

\* ath_monitor.py has returned from main() for want of TELEGRAM_CHAT_ID
C16_Witness ==
    /\ l_variant = "monitor"
    /\ l_token /\ ~l_chat_id
    /\ l_pc = "exited"

\* C28  At most one scheduled check per hour in main.py: a scheduled check
\* starts only at an iteration whose time is in the first 30 seconds of an
\* hour and more than 3500 seconds after the start of the scheduled check
\* before it.
C28_OneCheckPerHour ==
    [][(l_variant = "main" /\ l_pc = "timecheck" /\ l_pc' = "check") =>
          /\ InWindow(l_time)
          /\ l_last_start # None => l_time - l_last_start > MinGap]_allVars

\* a scheduled check has started and returned inside the 30-second window,
\* and the next iteration tests the time inside the same window
C28_Witness ==
    /\ l_variant = "main" /\ l_pc = "timecheck"
    /\ InWindow(l_time)
    /\ l_last_start # None /\ InWindow(l_last_start)
    /\ last_hourly_check = Monotonic(l_last_start)
    /\ l_time > l_last_start
    /\ l_time - l_last_start < WindowSeconds

(* --------------------- properties: ath_monitor.py ---------------------- *)

\* C2  Cooldown safety (ath_monitor.py): a coin included in a delivered
\* notification is not included in the notification of a later cycle that
\* runs less than 24 hours afterwards.
C2_CooldownSafetyMonitor ==
    \A i \in CoinIds :
        m_prevAlert[i] # None => m_lastAlert[i] - m_prevAlert[i] >= OneDay

C5_RetrySamePage ==
    \A k \in 1..Len(f_log) :
        f_log[k].outcome = "rate" =>
            /\ k < Len(f_log) => f_log[k + 1].page = f_log[k].page
            /\ f_pc = "returned" => k < Len(f_log)

\* C6  Detail fetcher: after a rate-limit signal for a coin the next request
\* is for the same coin (the same position of coins_data), and the fetcher
\* does not return while the last answer it got is a rate-limit signal.
C6_RetrySameCoin ==
    \A k \in 1..Len(d_log) :
        d_log[k].outcome = "rate" =>
            /\ k < Len(d_log) => d_log[k + 1].idx = d_log[k].idx
            /\ d_pc = "returned" => k < Len(d_log)

\* the entries of page q: those its successful request returned, and for a
\* page that was never fetched successfully those the provider holds
C7_PageContent(q) ==
    LET oks == {k \in 1..Len(f_log) : f_log[k].page = q /\ f_log[k].outcome = "ok"}
    IN  IF oks = {} THEN PageEntries(q, PerPage)
        ELSE f_log[CHOOSE k \in oks : TRUE].entries

RECURSIVE C7_Concat(_)
C7_Concat(q) == IF q = 0 THEN <<>> ELSE C7_Concat(q - 1) \o C7_PageContent(q)

\* the fetcher has returned because page k failed with a non-rate-limit error
C7_FailedAt(k) ==
    /\ f_pc = "returned"
    /\ f_log # <<>>
    /\ f_log[Len(f_log)].outcome = "error"
    /\ f_log[Len(f_log)].page = k

\* C7  When page k is the first page to fail with a non-rate-limit error,
\* no page after k is requested and the result is exactly the entries of
\* pages 1..k-1 concatenated in page order.
C7_PartialFailure ==
    \A k \in 1..(TotalPages + MaxCoinsArg) :
        C7_FailedAt(k) =>
            /\ \A j \in 1..Len(f_log) : f_log[j].page <= k
            /\ all_coin_data = C7_Concat(k - 1)

\* C7 holds of the runs in which no page was rate-limited
C7_WithoutRateLimits ==
    \A k \in 1..(TotalPages + MaxCoinsArg) :
        (C7_FailedAt(k) /\ \A j \in 1..Len(f_log) : f_log[j].outcome # "rate") =>
            /\ \A j \in 1..Len(f_log) : f_log[j].page <= k
            /\ all_coin_data = C7_Concat(k - 1)

\* get_top_coins_data has returned and every request succeeded
C8_AllSucceeded ==
    /\ f_variant = "monitor"
    /\ f_pc = "returned"
    /\ \A k \in 1..Len(f_log) : f_log[k].outcome = "ok"

RECURSIVE C8_Received(_)
C8_Received(n) == IF n = 0 THEN <<>> ELSE C8_Received(n - 1) \o f_log[n].entries

\* C8  With every request succeeding, get_top_coins_data(max_coins=N)
\* issues exactly ceil(N/P) page requests and returns at most N entries, in
\* the order the provider gave them.
C8_PageCountCeil ==
    C8_AllSucceeded =>
        /\ Len(f_log) = (f_max_coins + PerPage - 1) \div PerPage
        /\ Len(all_coin_data) <= f_max_coins
        /\ all_coin_data = C8_Received(Len(f_log))

\* what get_top_coins_data(max_coins=N) does instead: floor(N/P) page
\* requests, for pages 1, 2, ... in order
C8_PageCountFloor ==
    C8_AllSucceeded =>
        /\ Len(f_log) = f_max_coins \div PerPage
        /\ \A k \in 1..Len(f_log) : f_log[k].page = k
        /\ Len(all_coin_data) <= f_max_coins
        /\ all_coin_data = C8_Received(Len(f_log))

\* C18  what the contract asks of a detail record: it was returned, with
\* market data, an ATH price, an ATH timestamp, a current price and a rank
\* that are neither null nor zero, and an ATH at most 24 hours old
C18_Valid(resp) ==
    /\ resp.exc = <<>> /\ resp.has_market_data
    /\ resp.ath_price \notin {None, 0}
    /\ resp.ath_date # None
    /\ resp.current_price \notin {None, 0}
    /\ resp.market_cap_rank \notin {None, 0}
    /\ now - resp.ath_date <= OneDay

\* C18  Every candidate get_coin_ath_data returns has an ATH price, an ATH
\* timestamp, a current price and a rank that are truthy, and an ATH at most
\* 24 hours old; the candidates are as many as the valid detail records, so
\* no other record gives one.
C18_CandidatesValid ==
    /\ \A k \in 1..Len(d_ath_tokens) :
          /\ d_ath_tokens[k].ath_price \notin {None, 0}
          /\ d_ath_tokens[k].ath_date # None
          /\ d_ath_tokens[k].current_price \notin {None, 0}
          /\ d_ath_tokens[k].rank \notin {None, 0}
          /\ now - d_ath_tokens[k].ath_date <= OneDay
    /\ Len(d_ath_tokens) = Cardinality({k \in 1..Len(d_log) : C18_Valid(d_log[k].resp)})

\* two records were fetched: one whose ATH is 24 hours old exactly gave a
\* candidate, one without a rank gave none
C18_Witness ==
    /\ d_pc = "returned"
    /\ Len(d_log) = 2
    /\ Len(d_ath_tokens) = 1
    /\ now - d_ath_tokens[1].ath_date = OneDay
    /\ \E k \in 1..2 :
          /\ d_log[k].resp.exc = <<>> /\ d_log[k].resp.has_market_data
          /\ d_log[k].resp.market_cap_rank = None
          /\ d_log[k].resp.ath_date = now

\* C19  A failure of one identifier's detail request that is no rate limit
\* does not end get_coin_ath_data: a request is still issued for every
\* later identifier of the input, and the failed request gives no candidate
\* (there are no more candidates than requests that succeeded).
C19_FailureSkipsOne ==
    d_pc = "returned" =>
        /\ \A k \in 1..Len(d_log) :
              d_log[k].outcome = "error" =>
                  \A j \in (d_log[k].idx + 1)..Len(d_coins) :
                      d_coins[j] # "" => \E m \in 1..Len(d_log) : d_log[m].idx = j
        /\ Len(d_ath_tokens) <= Cardinality({k \in 1..Len(d_log) : d_log[k].outcome = "ok"})

\* the request for the first of two coins failed with a server error, the
\* second was fetched and gave the only candidate
C19_Witness ==
    /\ d_pc = "returned"
    /\ Len(d_coins) = 2
    /\ Len(d_log) = 2
    /\ d_log[1].outcome = "error"
    /\ d_log[2].outcome = "ok"
    /\ Len(d_ath_tokens) = 1
    /\ d_ath_tokens[1].id = d_coins[2]

\* C9  The list the catalog fetcher returns holds each coin id at most once
\* and no entry without a rank.
C9_DedupRanked ==
    f_pc = "returned" =>
        /\ \A j, k \in 1..Len(all_coin_data) :
              j # k => all_coin_data[j].id # all_coin_data[k].id
        /\ \A k \in 1..Len(all_coin_data) : all_coin_data[k].rank # None

\* C29  The catalog fetch terminates: whatever the provider answers, the
\* fetcher issues at most max_pages requests, each page number at most
\* once, and then returns.
C29_FetchTerminates ==
    /\ [](/\ Len(f_log) <= f_max_pages
          /\ \A i, j \in 1..Len(f_log) : f_log[i].page = f_log[j].page => i = j)
    /\ <>(f_pc = "returned")

\* every page was answered with a rate-limit signal: max_pages requests
\* were made and the fetcher has returned
C29_Witness ==
    /\ f_pc = "returned"
    /\ f_max_pages = TotalPages
    /\ Len(f_log) = f_max_pages
    /\ \A k \in 1..Len(f_log) : f_log[k].outcome = "rate"

====
